---- MODULE Spec2Model ----
(***************************************************************************)
(* CoreView3D backend: the session store (store/store.py), the session     *)
(* router (routers/session_router.py) and the parts of the parsers and of  *)
(* the trajectory engine that the router's handlers run through.           *)
(*                                                                         *)
(* Python values are modelled as follows.  Optional[T] is a sequence of    *)
(* length 0 (None) or 1 (the value).  A DataFrame is a record of its       *)
(* column labels and its rows.  pickle.dumps and json.dumps wrap the value *)
(* they encode (the blob is a different value from what it encodes), and   *)
(* pickle.loads and json.loads unwrap it.  An exception is the name of its *)
(* class in the "raised" field of an operation's outcome.                  *)
(***************************************************************************)
EXTENDS Integers, Sequences, FiniteSets, TLC

\* ------------------------------------------------------------------ bounds
\* Largest number of rows of an input table.
MaxHoles == 2
\* Number of seconds CURRENT_TIMESTAMP can advance.
MaxClock == 1

\* The session ids in use (the store takes any string; the router draws uuid4's).
SessionIds == {"s1", "s2"}
HoleIds == 1..MaxHoles
\* The holes in ascending and in descending order.
AllHoles == [i \in 1..MaxHoles |-> i]
ReversedHoles == [i \in 1..MaxHoles |-> MaxHoles + 1 - i]

\* ------------------------------------------------------------ Python values
None == <<>>
Some(x) == <<x>>

\* DataFrame.empty: no rows or no columns.
DfEmpty(df) == Len(df.rows) = 0 \/ Len(df.columns) = 0

\* -------------------------------------------------------------------- state
VARIABLES
    tableExists,   \* the store file holds the sessions table
    sessions,      \* the rows of the sessions table
    clock,         \* the store's CURRENT_TIMESTAMP, in seconds
    last,          \* the last completed call: operation, arguments, outcome
    lastSaved,     \* history: per session id, the data of its last save, None after a delete
    savedOrder,    \* history: the stored session ids, the most recently saved first
    created,       \* history: per session id, the response create gave for it
    pc,            \* per worker: where it is inside save_session_data
    job            \* per worker: the save it is running and what its SELECT saw

vars == <<tableExists, sessions, clock, last, lastSaved, savedOrder, created, pc, job>>

\* ------------------------------------------------------------------- store
\* store.py:52-55
serialize_dataframe(df) ==
    IF df = None \/ DfEmpty(df[1]) THEN None ELSE Some([pickle |-> df[1]])

\* store.py:57-60
deserialize_dataframe(data) ==
    IF data = None THEN None ELSE Some(data[1].pickle)

\* store.py:73: json.dumps(data.trajectories) if data.trajectories else None
\* (None, [] and {} are all falsy).
TrajectoriesFalsy(t) == t = None \/ Len(t[1]) = 0
serialize_trajectories(t) ==
    IF TrajectoriesFalsy(t) THEN None ELSE Some([json |-> t[1]])

\* A faulty variant: the stored trajectories are never read back.
deserialize_trajectories_lost(j) == <<>>
\* store.py:141
deserialize_trajectories(j) ==
    IF j = None THEN None ELSE Some(j[1].json)

\* store.py:64-68.  len(None) raises TypeError.
session_metadata(data) ==
    [total_holes |-> Len(data.collar_df[1].rows),
     has_survey  |-> data.survey_df # None,
     has_assays  |-> data.assays_df # None]

\* store.py:77-78: SELECT session_id FROM sessions WHERE session_id = ?
select_exists(t, sid) == \E r \in t : r.session_id = sid

\* The column values save_session_data binds (store.py:70-73, 91-96, 104-109).
bound_columns(data) ==
    [metadata     |-> [json |-> session_metadata(data)],
     collar_data  |-> serialize_dataframe(data.collar_df),
     survey_data  |-> serialize_dataframe(data.survey_df),
     assays_data  |-> serialize_dataframe(data.assays_df),
     trajectories |-> serialize_trajectories(data.trajectories)]

\* A faulty variant: the UPDATE leaves the trajectories column as it was.
update_row_stale(t, now, sid, data) ==
    {IF r.session_id = sid
     THEN [r EXCEPT !.updated_at = now,
                    !.metadata = bound_columns(data).metadata,
                    !.collar_data = bound_columns(data).collar_data,
                    !.survey_data = bound_columns(data).survey_data,
                    !.assays_data = bound_columns(data).assays_data]
     ELSE r : r \in t}
\* store.py:81-97: UPDATE sessions SET updated_at = CURRENT_TIMESTAMP, ... WHERE session_id = ?
update_row(t, now, sid, data) ==
    {IF r.session_id = sid
     THEN [r EXCEPT !.updated_at = now,
                    !.metadata = bound_columns(data).metadata,
                    !.collar_data = bound_columns(data).collar_data,
                    !.survey_data = bound_columns(data).survey_data,
                    !.assays_data = bound_columns(data).assays_data,
                    !.trajectories = bound_columns(data).trajectories]
     ELSE r : r \in t}

\* store.py:36: session_id TEXT PRIMARY KEY.
primary_key_free(t, sid) == ~ select_exists(t, sid)

\* store.py:100-110: INSERT INTO sessions (...) VALUES (...); created_at and
\* updated_at take their DEFAULT CURRENT_TIMESTAMP (store.py:37-38).
insert_row(t, now, sid, data) ==
    IF primary_key_free(t, sid)
    THEN [raised |-> "", table |->
            t \cup {[session_id   |-> sid,
                      created_at   |-> now,
                      updated_at   |-> now,
                      metadata     |-> bound_columns(data).metadata,
                      collar_data  |-> bound_columns(data).collar_data,
                      survey_data  |-> bound_columns(data).survey_data,
                      assays_data  |-> bound_columns(data).assays_data,
                      trajectories |-> bound_columns(data).trajectories]}]
    ELSE [raised |-> "IntegrityError", table |-> t]

\* store.py:80-114: the write that follows the existence check, and the commit.
save_write(t, now, exists, sid, data) ==
    IF exists
    THEN [raised |-> "", table |-> update_row(t, now, sid, data)]
    ELSE insert_row(t, now, sid, data)

\* store.py:62-118
save_session_data(t, now, sid, data) ==
    IF data.collar_df = None
    THEN [raised |-> "TypeError", table |-> t]
    ELSE save_write(t, now, select_exists(t, sid), sid, data)

\* The rows a WHERE session_id = ? matches.
rows_of(t, sid) == {r \in t : r.session_id = sid}

\* store.py:120-154: None when no row matches, else the deserialized SessionData.
get_session_data(t, sid) ==
    IF rows_of(t, sid) = {}
    THEN None
    ELSE LET row == CHOOSE r \in rows_of(t, sid) : TRUE
         IN  Some([collar_df    |-> deserialize_dataframe(row.collar_data),
                   survey_df    |-> deserialize_dataframe(row.survey_data),
                   assays_df    |-> deserialize_dataframe(row.assays_data),
                   trajectories |-> deserialize_trajectories(row.trajectories)])

\* A faulty variant: DELETE without its WHERE clause.
delete_every_row(t, sid) == [deleted |-> select_exists(t, sid), table |-> {}]
\* A faulty variant: the row is reported deleted but stays.
delete_keeps_row(t, sid) == [deleted |-> select_exists(t, sid), table |-> t]
\* store.py:156-173: DELETE FROM sessions WHERE session_id = ?; rowcount > 0.
delete_session_data(t, sid) ==
    [deleted |-> select_exists(t, sid),
     table   |-> {r \in t : r.session_id # sid}]

\* store.py:186-195: one entry of list_sessions.
list_entry(row) ==
    [session_id |-> row.session_id,
     created_at |-> row.created_at,
     updated_at |-> row.updated_at,
     metadata   |-> row.metadata.json]

\* The sequences that hold every row of t exactly once.
Orderings(t) ==
    {s \in [1..Cardinality(t) -> t] : \A i, j \in 1..Cardinality(t) : i # j => s[i] # s[j]}

\* A faulty variant: no ORDER BY.
order_any(s) == TRUE
\* store.py:179-183: ORDER BY updated_at DESC.  SQL leaves the order of rows
\* with equal updated_at open: every ordering of the rows that is sorted is a
\* possible result.
sorted_desc(s) == \A i, j \in 1..Len(s) : i < j => s[i].updated_at >= s[j].updated_at

\* store.py:175-202
list_sessions(t) ==
    {[i \in 1..Len(s) |-> list_entry(s[i])] : s \in {o \in Orderings(t) : sorted_desc(o)}}

\* store.py:204-231: None when unknown, else the metadata merged with the timestamps.
get_session_metadata(t, sid) ==
    IF rows_of(t, sid) = {}
    THEN None
    ELSE LET row == CHOOSE r \in rows_of(t, sid) : TRUE
         IN  Some([session_id   |-> sid,
                   created_at   |-> row.created_at,
                   updated_at   |-> row.updated_at,
                   total_holes  |-> row.metadata.json.total_holes,
                   has_survey   |-> row.metadata.json.has_survey,
                   has_assays   |-> row.metadata.json.has_assays])

\* A faulty variant: the table is created anew on every start.
init_database_drop(exists, t) == {}
\* store.py:30-46: CREATE TABLE IF NOT EXISTS sessions (...).
init_database(exists, t) == IF exists THEN t ELSE {}

\* -------------------------------------------------------------- trajectories
\* trajectory.py:52, 103, 165: collar.get("MAX_DEPTH", 100.0).
DefaultMaxDepth == 100

\* Series/DataFrame indexing by a label that is no column raises KeyError.
HasColumn(df, c) == \E i \in 1..Len(df.columns) : df.columns[i] = c
HasColumns(df, cs) == \A c \in cs : HasColumn(df, c)

\* trajectory.py:128: survey_df.sort_values("DEPTH"), as the ascending depths.
RECURSIVE SortedDepths(_)
SortedDepths(ds) ==
    IF ds = {} THEN <<>>
    ELSE LET m == CHOOSE x \in ds : \A y \in ds : x <= y
         IN  <<m>> \o SortedDepths(ds \ {m})

\* A faulty variant: every row adds a point.
RECURSIVE step_survey_all(_, _, _)
step_survey_all(depths, prev, acc) ==
    IF depths = <<>> THEN acc
    ELSE step_survey_all(Tail(depths), Head(depths), Append(acc, Head(depths)))

\* trajectory.py:135-162: one point per row whose depth exceeds the depth of
\* the last accepted row.  A point is named by the measured depth it stands at
\* (the collar is 0).
RECURSIVE step_survey(_, _, _)
step_survey(depths, prev, acc) ==
    IF depths = <<>> THEN acc
    ELSE IF Head(depths) - prev <= 0
         THEN step_survey(Tail(depths), prev, acc)
         ELSE step_survey(Tail(depths), Head(depths), Append(acc, Head(depths)))

\* trajectory.py:79-168.  sub is the hole's survey rows (a sequence), or None.
calculate_single_trajectory(sub) ==
    IF sub = None \/ Len(sub[1]) = 0
    THEN <<0, DefaultMaxDepth>>
    ELSE LET stepped == step_survey(
                 SortedDepths({sub[1][i].depth : i \in 1..Len(sub[1])}), 0, <<0>>)
         IN  IF Len(stepped) < 2 THEN Append(stepped, DefaultMaxDepth) ELSE stepped

\* np.sin and np.cos of np.radians of an angle that is a multiple of 90.
QuarterTurns == {90 * k : k \in (0 - 4)..8}
Sin == [a \in QuarterTurns |->
          CASE a % 360 = 90 -> 1 [] a % 360 = 270 -> 0 - 1 [] OTHER -> 0]
Cos == [a \in QuarterTurns |->
          CASE a % 360 = 0 -> 1 [] a % 360 = 180 -> 0 - 1 [] OTHER -> 0]

\* trajectory.py:107-118, 145-156: the displacement <<east, north, up>> of a
\* straight step of a length at an azimuth and a dip.
displacement(length, azimuth_deg, dip_deg) ==
    LET incl == IF dip_deg >= 0 THEN dip_deg ELSE 180 + dip_deg
        horiz_component == length * Sin[incl]
    IN  <<horiz_component * Sin[azimuth_deg], horiz_component * Cos[azimuth_deg],
          0 - length * Cos[incl]>>

\* trajectory.py:128: survey_df.sort_values("DEPTH") of the rows themselves;
\* rows of one depth keep the order in which they came.
RECURSIVE sort_by_depth(_)
sort_by_depth(rows) ==
    IF rows = <<>> THEN <<>>
    ELSE LET i == CHOOSE i \in 1..Len(rows) :
                     /\ \A j \in 1..Len(rows) : rows[i].depth <= rows[j].depth
                     /\ \A j \in 1..(i - 1) : rows[j].depth # rows[i].depth
         IN  <<rows[i]>> \o sort_by_depth([k \in 1..(Len(rows) - 1) |->
                                              IF k < i THEN rows[k] ELSE rows[k + 1]])

\* trajectory.py:135-162: the position, relative to the collar, reached by
\* each row whose depth exceeds the depth of the last accepted row.
RECURSIVE step_positions(_, _, _)
step_positions(rows, prev_depth, acc) ==
    IF rows = <<>> THEN acc
    ELSE IF Head(rows).depth - prev_depth <= 0
         THEN step_positions(Tail(rows), prev_depth, acc)
         ELSE LET d == displacement(Head(rows).depth - prev_depth,
                                    Head(rows).azimuth, Head(rows).dip)
                  current == acc[Len(acc)]
              IN  step_positions(Tail(rows), Head(rows).depth,
                                 Append(acc, <<current[1] + d[1], current[2] + d[2],
                                               current[3] + d[3]>>))

\* trajectory.py:79-168, the positions of the points relative to the collar: a
\* collar without AZIMUTH and DIP has the defaults 0.0 and -90.0.
trajectory_positions(sub) ==
    IF sub = None \/ Len(sub[1]) = 0
    THEN <<<<0, 0, 0>>, displacement(DefaultMaxDepth, 0, 0 - 90)>>
    ELSE LET stepped == step_positions(sort_by_depth(sub[1]), 0, <<<<0, 0, 0>>>>)
         IN  IF Len(stepped) < 2 THEN Append(stepped, <<0, 0, 0 - DefaultMaxDepth>>)
             ELSE stepped

\* trajectory.py:40-44: the survey rows of one hole, None when there are none.
survey_subset(survey_df, hole) ==
    IF survey_df = None THEN None
    ELSE LET subset == SelectSeq(survey_df[1].rows, LAMBDA r : r.hole = hole)
         IN  IF Len(subset) > 0 THEN Some(subset) ELSE None

\* trajectory.py:55-59: the reported depth of each point, the summed lengths
\* of the segments before it.  A step of measured length d moves the point by
\* d times a unit vector, so the segment between two points is as long as
\* their measured depths are apart.
Abs(x) == IF x < 0 THEN 0 - x ELSE x
RECURSIVE depths_along(_, _)
depths_along(pts, n) ==
    IF n = 1 THEN <<0>>
    ELSE LET before == depths_along(pts, n - 1)
         IN  Append(before, before[n - 1] + Abs(pts[n] - pts[n - 1]))

\* trajectory.py:47-53: a path of fewer than 2 points gets a toe point.
with_toe(pts) == IF Len(pts) < 2 THEN Append(pts, DefaultMaxDepth) ELSE pts

\* trajectory.py:36-74: the result of one collar row.
hole_trajectory(hole, survey_df) ==
    LET sub == survey_subset(survey_df, hole)
        pts == with_toe(calculate_single_trajectory(sub))
    IN  [hole_id    |-> hole,
         points     |-> pts,
         positions  |-> trajectory_positions(sub),
         depths     |-> depths_along(pts, Len(pts)),
         has_survey |-> sub # None]

\* trajectory.py:16-76.  The loop body reads collar["HOLEID"], ["EAST"],
\* ["NORTH"], ["ELEV"] and, with a survey table, survey_df["HOLEID"] (and
\* "DEPTH", "AZIMUTH", "DIP" of the hole's rows); with no collar row nothing is read.
trajectory_columns_ok(collar_df, survey_df) ==
    /\ HasColumns(collar_df, {"HOLEID", "EAST", "NORTH", "ELEV"})
    /\ survey_df # None => HasColumn(survey_df[1], "HOLEID")
    /\ (survey_df # None /\ Len(survey_df[1].rows) > 0)
           => HasColumns(survey_df[1], {"DEPTH", "AZIMUTH", "DIP"})

\* A faulty variant: holes without survey rows get no trajectory.
calculate_trajectories_surveyed(collar_df, survey_df) ==
    IF Len(collar_df.rows) > 0 /\ ~ trajectory_columns_ok(collar_df, survey_df)
    THEN [raised |-> "KeyError", value |-> <<>>]
    ELSE [raised |-> "", value |->
            LET kept == SelectSeq(collar_df.rows,
                                  LAMBDA h : survey_subset(survey_df, h) # None)
            IN  [i \in 1..Len(kept) |-> hole_trajectory(kept[i], survey_df)]]

calculate_trajectories(collar_df, survey_df) ==
    IF Len(collar_df.rows) > 0 /\ ~ trajectory_columns_ok(collar_df, survey_df)
    THEN [raised |-> "KeyError", value |-> <<>>]
    ELSE [raised |-> "", value |->
            [i \in 1..Len(collar_df.rows) |-> hole_trajectory(collar_df.rows[i], survey_df)]]

\* ------------------------------------------------------- session data inputs
\* The tables of tests/conftest.py:28-60: canonical upper-case labels.
CollarColumns == <<"HOLEID", "EAST", "NORTH", "ELEV">>
SurveyColumns == <<"HOLEID", "DEPTH", "AZIMUTH", "DIP">>
AssayColumns == <<"HOLEID", "FROM", "TO">>

\* SessionData (store.py:12-17) as the tests build it: the full fixture
\* (conftest.py:72-79, trajectories as the engine computes them), a collar
\* in another order without optional data (test_persistence.py:115-123),
\* tables without rows and an empty trajectory list, a collar without rows,
\* and no collar at all.
FullSurvey ==
    [columns |-> SurveyColumns,
     rows |-> <<[hole |-> 1, depth |-> 0, azimuth |-> 0, dip |-> 0 - 90],
                [hole |-> 1, depth |-> 50, azimuth |-> 0, dip |-> 0 - 90]>>]
FullAssays == [columns |-> AssayColumns, rows |-> <<[hole |-> 1]>>]
Collar(rows) == [columns |-> CollarColumns, rows |-> rows]
SessionDataInputs ==
    {[collar_df |-> Some(Collar(AllHoles)), survey_df |-> Some(FullSurvey),
      assays_df |-> Some(FullAssays),
      trajectories |-> Some(calculate_trajectories(Collar(AllHoles), Some(FullSurvey)).value)],
     [collar_df |-> Some(Collar(ReversedHoles)), survey_df |-> None,
      assays_df |-> None, trajectories |-> None],
     [collar_df |-> Some(Collar(<<1>>)),
      survey_df |-> Some([columns |-> SurveyColumns, rows |-> <<>>]),
      assays_df |-> Some([columns |-> AssayColumns, rows |-> <<>>]),
      trajectories |-> Some(<<>>)],
     [collar_df |-> Some(Collar(<<>>)), survey_df |-> None,
      assays_df |-> None, trajectories |-> Some(<<>>)],
     [collar_df |-> None, survey_df |-> None, assays_df |-> None, trajectories |-> None]}

\* --------------------------------------------------------------------- calls
NoBody == <<>>
Call(op, sid, status, raised, result) ==
    [op |-> op, sid |-> sid, status |-> status, raised |-> raised, result |-> result]

Without(seq, x) == SelectSeq(seq, LAMBDA y : y # x)

Idle == [p \in {1, 2} |-> "idle"]
NoJob == [p \in {1, 2} |-> <<>>]

Init ==
    /\ tableExists = TRUE
    /\ sessions = {}
    /\ clock = 0
    /\ last = Call("init", "", 0, "", NoBody)
    /\ lastSaved = [s \in SessionIds |-> None]
    /\ savedOrder = <<>>
    /\ created = [s \in SessionIds |-> None]
    /\ pc = Idle
    /\ job = NoJob

\* One second passes.
Tick ==
    /\ clock < MaxClock
    /\ clock' = clock + 1
    /\ UNCHANGED <<tableExists, sessions, last, lastSaved, savedOrder, created, pc, job>>

\* A new process constructs PersistenceManager on the same file (store.py:22-25).
Restart ==
    /\ tableExists' = TRUE
    /\ sessions' = init_database(tableExists, sessions)
    /\ last' = Call("restart", "", 0, "", NoBody)
    /\ UNCHANGED <<clock, lastSaved, savedOrder, created, pc, job>>

\* await persistence_manager.save_session_data(sid, data)
Save(sid, data) ==
    LET out == save_session_data(sessions, clock, sid, data)
    IN  /\ sessions' = out.table
        /\ last' = Call("save", sid, 0, out.raised, Some(out.raised = ""))
        /\ lastSaved' = IF out.raised = "" THEN [lastSaved EXCEPT ![sid] = Some(data)]
                        ELSE lastSaved
        /\ savedOrder' = IF out.raised = "" THEN <<sid>> \o Without(savedOrder, sid)
                         ELSE savedOrder
        /\ created' = IF out.raised = "" THEN [created EXCEPT ![sid] = None] ELSE created
        /\ UNCHANGED <<tableExists, clock, pc, job>>

\* await persistence_manager.get_session_data(sid)
Get(sid) ==
    /\ last' = Call("get", sid, 0, "", get_session_data(sessions, sid))
    /\ UNCHANGED <<tableExists, sessions, clock, lastSaved, savedOrder, created, pc, job>>

\* await persistence_manager.delete_session_data(sid)
Delete(sid) ==
    LET out == delete_session_data(sessions, sid)
    IN  /\ sessions' = out.table
        /\ last' = Call("delete", sid, 0, "", Some(out.deleted))
        /\ lastSaved' = [lastSaved EXCEPT ![sid] = None]
        /\ savedOrder' = Without(savedOrder, sid)
        /\ created' = [created EXCEPT ![sid] = None]
        /\ UNCHANGED <<tableExists, clock, pc, job>>

\* await persistence_manager.list_sessions()
List ==
    /\ \E s \in list_sessions(sessions) : last' = Call("list", "", 0, "", s)
    /\ UNCHANGED <<tableExists, sessions, clock, lastSaved, savedOrder, created, pc, job>>

\* await persistence_manager.get_session_metadata(sid)
GetMetadata(sid) ==
    /\ last' = Call("metadata", sid, 0, "", get_session_metadata(sessions, sid))
    /\ UNCHANGED <<tableExists, sessions, clock, lastSaved, savedOrder, created, pc, job>>

StoreNext ==
    \/ Tick
    \/ Restart
    \/ \E sid \in SessionIds, data \in SessionDataInputs : Save(sid, data)
    \/ \E sid \in SessionIds : Get(sid)
    \/ \E sid \in SessionIds : Delete(sid)
    \/ List
    \/ \E sid \in SessionIds : GetMetadata(sid)

\* The persistence manager called directly, one call at a time.
SpecStore == Init /\ [][StoreNext]_vars

\* ------------------------------------------------------ interleaved saves
\* Two workers (processes on the same store file) inside save_session_data.
\* SELECT and the INSERT or UPDATE with its commit are separate statements on
\* a connection that holds no lock in between (store.py:75-113).
Workers == {1, 2}
\* The saves are of data with a collar of at least one row.
SavableInputs ==
    {d \in SessionDataInputs : d.collar_df # None /\ Len(d.collar_df[1].rows) = MaxHoles}

\* store.py:64-78: the columns are bound, the connection opens, SELECT runs.
SaveBegin(p, sid, data) ==
    /\ pc[p] = "idle"
    /\ pc' = [pc EXCEPT ![p] = "checked"]
    /\ job' = [job EXCEPT ![p] =
                  Some([sid |-> sid, data |-> data, exists |-> select_exists(sessions, sid)])]
    /\ UNCHANGED <<tableExists, sessions, clock, last, lastSaved, savedOrder, created>>

\* store.py:80-114: INSERT or UPDATE as the SELECT decided, then commit.
SaveWrite(p) ==
    /\ pc[p] = "checked"
    /\ LET j == job[p][1]
           out == save_write(sessions, clock, j.exists, j.sid, j.data)
       IN  /\ sessions' = out.table
           /\ pc' = [pc EXCEPT ![p] = IF out.raised = "" THEN "done" ELSE "failed"]
           /\ last' = Call("save", j.sid, 0, out.raised, Some(out.raised = ""))
           /\ lastSaved' = IF out.raised = "" THEN [lastSaved EXCEPT ![j.sid] = Some(j.data)]
                           ELSE lastSaved
           /\ savedOrder' = IF out.raised = "" THEN <<j.sid>> \o Without(savedOrder, j.sid)
                            ELSE savedOrder
    /\ UNCHANGED <<tableExists, clock, created, job>>

\* store.py:114, 116-118: the call returns True or re-raises; the worker is free again.
SaveEnd(p) ==
    /\ pc[p] \in {"done", "failed"}
    /\ pc' = [pc EXCEPT ![p] = "idle"]
    /\ job' = [job EXCEPT ![p] = None]
    /\ UNCHANGED <<tableExists, sessions, clock, last, lastSaved, savedOrder, created>>

ConcNext ==
    \/ Tick
    \/ \E p \in Workers, sid \in SessionIds, data \in SavableInputs : SaveBegin(p, sid, data)
    \/ \E p \in Workers : SaveWrite(p)
    \/ \E p \in Workers : SaveEnd(p)

\* Saves of two workers, interleaved statement by statement.
SpecConc == Init /\ [][ConcNext]_vars

\* ----------------------------------------------------------------- uploads
\* A delimited-text upload: the header labels and the data rows.  A file
\* without any content has no header.  A row names its hole (and its depth in
\* a survey) and says whether its required numeric cells are numeric.
EmptyFile == [header |-> <<>>, rows |-> <<>>]

\* str.lower() with '_', '-' and ' ' removed (csv_parser.py:46), over the
\* labels of the uploads: the header spellings of tests/helpers.py:15-57.
Squash ==
    ("Hole_ID" :> "holeid") @@ ("East" :> "east") @@ ("North" :> "north") @@
    ("Elevation" :> "elevation") @@ ("Max_Depth" :> "maxdepth") @@
    ("HOLEID" :> "holeid") @@ ("EAST" :> "east") @@ ("NORTH" :> "north") @@
    ("ELEV" :> "elev") @@ ("MAX_DEPTH" :> "maxdepth") @@
    ("DHID" :> "dhid") @@ ("X" :> "x") @@ ("Y" :> "y") @@ ("RL" :> "rl") @@
    ("Depth" :> "depth") @@ ("easting" :> "easting") @@ ("Northing" :> "northing") @@
    ("ELEVATION" :> "elevation") @@ ("max_depth" :> "maxdepth") @@
    ("Azimuth" :> "azimuth") @@ ("Dip" :> "dip") @@ ("DEPTH" :> "depth") @@
    ("AZIMUTH" :> "azimuth") @@ ("DIP" :> "dip") @@
    ("From" :> "from") @@ ("To" :> "to") @@ ("FROM" :> "from") @@ ("TO" :> "to") @@
    ("holeid" :> "holeid") @@ ("east" :> "east") @@ ("north" :> "north") @@
    ("elevation" :> "elevation")

\* csv_parser.py:16-38: mapping_table, its keys as line 48 compares them.
mapping_table ==
    [collar |->
        [k \in {"holeid", "dhid", "bhid"} |-> "Hole_ID"] @@
        [k \in {"easting", "x", "utmx"} |-> "East"] @@
        [k \in {"northing", "y", "utmy"} |-> "North"] @@
        [k \in {"elevation", "elev", "z", "rl"} |-> "Elevation"] @@
        [k \in {"maxdepth", "depth", "length", "eoh"} |-> "Max_Depth"] @@
        [k \in {"azi", "azimut", "bearing"} |-> "Azimuth"] @@
        [k \in {"inclination", "incl", "plunge"} |-> "Dip"],
     survey |->
        [k \in {"holeid", "dhid", "bhid"} |-> "Hole_ID"] @@
        [k \in {"length", "depthm", "md", "alonghole"} |-> "Depth"] @@
        [k \in {"azi", "azimut", "bearing"} |-> "Azimuth"] @@
        [k \in {"inclination", "incl", "plunge"} |-> "Dip"],
     assay |->
        [k \in {"holeid", "dhid", "bhid"} |-> "Hole_ID"] @@
        [k \in {"fromm", "fromdepth", "depthfrom"} |-> "From"] @@
        [k \in {"tom", "todepth", "depthto"} |-> "To"] @@
        [k \in {"lith", "litho", "rocktype"} |-> "Lithology"]]

\* csv_parser.py:8-59: a label whose squashed form is a key is renamed to the
\* key's value; every other label is kept as it is.
normalize_column_names(columns, table_type) ==
    [i \in 1..Len(columns) |->
        IF Squash[columns[i]] \in DOMAIN mapping_table[table_type]
        THEN mapping_table[table_type][Squash[columns[i]]]
        ELSE columns[i]]

COLLAR_REQUIRED == {"Hole_ID", "East", "North", "Elevation"}
SURVEY_REQUIRED == {"Hole_ID", "Depth", "Azimuth", "Dip"}
ASSAY_REQUIRED == {"Hole_ID", "From", "To"}

Labels(columns) == {columns[i] : i \in 1..Len(columns)}

\* csv_parser.py:73-106.
validate_columns(columns, required_cols) == required_cols \subseteq Labels(columns)

\* csv_parser.py:157-168: the optional columns a collar lacks are added.
with_defaults(columns) ==
    columns
    \o (IF "Max_Depth" \in Labels(columns) THEN <<>> ELSE <<"Max_Depth">>)
    \o (IF "Azimuth" \in Labels(columns) THEN <<>> ELSE <<"Azimuth">>)
    \o (IF "Dip" \in Labels(columns) THEN <<>> ELSE <<"Dip">>)

AllNumeric(rows) == \A i \in 1..Len(rows) : rows[i].numeric

Parsed(raised, columns, rows) ==
    [raised |-> raised, value |-> [columns |-> columns, rows |-> rows]]

\* csv_parser.py:108-198.  read_csv raises EmptyDataError on a file without
\* a header; a missing required column and a non-numeric required cell raise
\* ValueError; a header without rows parses to a table without rows.
parse_collar(file) ==
    LET columns == normalize_column_names(file.header, "collar")
    IN  IF file.header = <<>> THEN Parsed("ValueError", <<>>, <<>>)
        ELSE IF ~ validate_columns(columns, COLLAR_REQUIRED)
             THEN Parsed("ValueError", <<>>, <<>>)
        ELSE IF ~ AllNumeric(file.rows) THEN Parsed("ValueError", <<>>, <<>>)
        ELSE Parsed("", with_defaults(columns),
                    [i \in 1..Len(file.rows) |-> file.rows[i].hole])

\* Lexicographic order of two key tuples of the same length.
RECURSIVE key_less(_, _)
key_less(a, b) ==
    IF a = <<>> THEN FALSE
    ELSE Head(a) < Head(b) \/ (Head(a) = Head(b) /\ key_less(Tail(a), Tail(b)))

\* sort_values (csv_parser.py:258, 321): the rows in ascending order of their
\* keys, keys[i] being the key tuple of rows[i].
RECURSIVE sort_values(_, _)
sort_values(rows, keys) ==
    IF rows = <<>> THEN <<>>
    ELSE LET i == CHOOSE i \in 1..Len(rows) :
                     \A j \in 1..Len(rows) : ~ key_less(keys[j], keys[i])
             rest(q) == [k \in 1..(Len(q) - 1) |-> IF k < i THEN q[k] ELSE q[k + 1]]
         IN  <<rows[i]>> \o sort_values(rest(rows), rest(keys))

\* csv_parser.py:239-242: dips that are all positive are negated.
flip_dips(rows) ==
    IF \A i \in 1..Len(rows) : rows[i].dip > 0
    THEN [i \in 1..Len(rows) |-> [rows[i] EXCEPT !.dip = 0 - rows[i].dip]]
    ELSE rows

\* csv_parser.py:244-254: Dip within [-90, 0] and Azimuth within [0, 360).
survey_ranges_ok(rows) ==
    \A i \in 1..Len(rows) :
        /\ ~ (rows[i].dip > 0 \/ rows[i].dip < 0 - 90)
        /\ ~ (rows[i].azimuth < 0 \/ rows[i].azimuth >= 360)

\* csv_parser.py:200-268.
parse_survey(file) ==
    LET columns == normalize_column_names(file.header, "survey")
    IN  IF file.header = <<>> THEN Parsed("ValueError", <<>>, <<>>)
        ELSE IF ~ validate_columns(columns, SURVEY_REQUIRED)
             THEN Parsed("ValueError", <<>>, <<>>)
        ELSE IF ~ AllNumeric(file.rows) THEN Parsed("ValueError", <<>>, <<>>)
        ELSE IF \E i \in 1..Len(file.rows) : file.rows[i].depth < 0
             THEN Parsed("ValueError", <<>>, <<>>)
        ELSE IF ~ survey_ranges_ok(flip_dips(file.rows)) THEN Parsed("ValueError", <<>>, <<>>)
        ELSE Parsed("", columns,
                    sort_values([i \in 1..Len(file.rows) |->
                                    [hole |-> file.rows[i].hole, depth |-> file.rows[i].depth,
                                     azimuth |-> file.rows[i].azimuth,
                                     dip |-> flip_dips(file.rows)[i].dip]],
                                [i \in 1..Len(file.rows) |->
                                    <<file.rows[i].hole, file.rows[i].depth>>]))

\* csv_parser.py:270-331.
parse_assays(file) ==
    LET columns == normalize_column_names(file.header, "assay")
    IN  IF file.header = <<>> THEN Parsed("ValueError", <<>>, <<>>)
        ELSE IF ~ validate_columns(columns, ASSAY_REQUIRED)
             THEN Parsed("ValueError", <<>>, <<>>)
        ELSE IF ~ AllNumeric(file.rows) THEN Parsed("ValueError", <<>>, <<>>)
        ELSE IF \E i \in 1..Len(file.rows) : file.rows[i].from >= file.rows[i].to
             THEN Parsed("ValueError", <<>>, <<>>)
        ELSE IF \E i \in 1..Len(file.rows) : file.rows[i].from < 0 \/ file.rows[i].to < 0
             THEN Parsed("ValueError", <<>>, <<>>)
        ELSE Parsed("", columns,
                    sort_values([i \in 1..Len(file.rows) |->
                                    [hole |-> file.rows[i].hole, from |-> file.rows[i].from,
                                     to |-> file.rows[i].to]],
                                [i \in 1..Len(file.rows) |->
                                    <<file.rows[i].hole, file.rows[i].from>>]))

\* ---------------------------------------------------------------- workbooks
\* A workbook upload: its filename and its sheets, each a name, a header and
\* rows as in a delimited-text upload.
COLLAR_SHEET_NAMES == <<"collar", "collars", "holes", "drillholes", "dh">>
SURVEY_SHEET_NAMES == <<"survey", "surveys", "deviation", "deviations">>
ASSAYS_SHEET_NAMES == <<"assays", "assay", "samples", "results", "intervals">>

\* str.lower() (excel_parser.py:25) over the sheet names of the uploads.
Lower ==
    ("Collar" :> "collar") @@ ("COLLAR" :> "collar") @@ ("Holes" :> "holes") @@
    ("Survey" :> "survey") @@ ("Assays" :> "assays") @@ ("Sheet1" :> "sheet1")

\* str.endswith('.xlsx') (session_router.py:81) over the filenames of the uploads.
endswith_xlsx ==
    ("holes.xlsx" :> TRUE) @@ ("holes.XLSX" :> FALSE) @@ ("holes.csv" :> FALSE)

\* excel_parser.py:25: {name.lower(): name for name in sheet_names}; of two
\* sheets with the same lowered name the later one stays.
sheet_mapping(sheets) ==
    [k \in {Lower[sheets[i].name] : i \in 1..Len(sheets)} |->
        LET last_i == CHOOSE i \in 1..Len(sheets) :
                          /\ Lower[sheets[i].name] = k
                          /\ \A j \in 1..Len(sheets) : Lower[sheets[j].name] = k => j <= i
        IN  sheets[last_i]]

\* A faulty variant: the last candidate name that is a sheet.
RECURSIVE find_sheet_last(_, _)
find_sheet_last(mapping, possible_names) ==
    IF possible_names = <<>> THEN None
    ELSE IF find_sheet_last(mapping, Tail(possible_names)) # None
         THEN find_sheet_last(mapping, Tail(possible_names))
         ELSE IF Head(possible_names) \in DOMAIN mapping
              THEN Some(mapping[Head(possible_names)])
              ELSE None
\* excel_parser.py:196-204: the first candidate name that is a sheet.
RECURSIVE find_sheet(_, _)
find_sheet(mapping, possible_names) ==
    IF possible_names = <<>> THEN None
    ELSE IF Head(possible_names) \in DOMAIN mapping
         THEN Some(mapping[Head(possible_names)])
         ELSE find_sheet(mapping, Tail(possible_names))

\* The synonym table of the column normalization (squashed spelling to
\* canonical name) that DrillholeParser.COLLAR_COLUMN_MAPPING,
\* SURVEY_COLUMN_MAPPING and ASSAYS_COLUMN_MAPPING hold.
COLUMN_MAPPING ==
    [collar |->
        [k \in {"holeid", "dhid", "id"} |-> "HOLEID"] @@
        [k \in {"east", "x", "easting", "eastings", "xcoord"} |-> "EAST"] @@
        [k \in {"north", "y", "northing", "northings", "ycoord"} |-> "NORTH"] @@
        [k \in {"elev", "elevation", "z", "rl", "alt", "altitude", "zcoord"} |-> "ELEV"] @@
        [k \in {"maxdepth", "depth", "enddepth", "finaldepth", "totaldepth"} |-> "MAX_DEPTH"],
     survey |->
        [k \in {"holeid", "dhid", "id"} |-> "HOLEID"] @@
        [k \in {"depth", "at", "atdepth", "surveydepth"} |-> "DEPTH"] @@
        [k \in {"azimuth", "az", "bearing", "azim"} |-> "AZIMUTH"] @@
        [k \in {"dip", "inclination", "incl", "plunge"} |-> "DIP"],
     assays |->
        [k \in {"holeid", "dhid", "id"} |-> "HOLEID"] @@
        [k \in {"from", "fromdepth", "start", "startdepth"} |-> "FROM"] @@
        [k \in {"to", "todepth", "end", "enddepth"} |-> "TO"] @@
        [k \in {"lithology", "lith", "rock", "rocktype", "litho"} |-> "LITHOLOGY"]]

\* _apply_column_mapping(df, mapping, required, name): every header spelling
\* that is a synonym is renamed to its canonical name; a required canonical
\* column that is still absent afterwards is an error.
apply_column_mapping(columns, kind, required) ==
    LET mapped == [i \in 1..Len(columns) |->
                      IF Squash[columns[i]] \in DOMAIN COLUMN_MAPPING[kind]
                      THEN COLUMN_MAPPING[kind][Squash[columns[i]]]
                      ELSE columns[i]]
    IN  [raised |-> IF required \subseteq Labels(mapped) THEN "" ELSE "ValueError",
         columns |-> mapped]

Found(raised, value) == [raised |-> raised, value |-> value]

\* dropna(subset=required) (excel_parser.py:88, 131, 185).
dropna(rows) == SelectSeq(rows, LAMBDA r : r.numeric)

\* excel_parser.py:79-82, 126-129, 170-172: a kept row as the table holds it.
cell(kind, r) ==
    CASE kind = "collar" -> r.hole
      [] kind = "survey" -> [hole |-> r.hole, depth |-> r.depth,
                             azimuth |-> r.azimuth, dip |-> r.dip]
      [] kind = "assays" -> [hole |-> r.hole, from |-> r.from, to |-> r.to]

\* excel_parser.py:52-97, 99-140, 142-194: no sheet of the kind or a sheet
\* without rows is None; missing required columns and no row left after
\* cleaning raise.
find_and_parse(sheets, possible_names, kind, required) ==
    LET sheet == find_sheet(sheet_mapping(sheets), possible_names)
    IN  IF sheet = None THEN Found("", None)
        ELSE IF sheet[1].header = <<>> \/ sheet[1].rows = <<>> THEN Found("", None)
        ELSE LET m == apply_column_mapping(sheet[1].header, kind, required)
                 kept == dropna(sheet[1].rows)
             IN  IF m.raised # "" THEN Found(m.raised, None)
                 ELSE IF kept = <<>> THEN Found("ValueError", None)
                 ELSE Found("", Some([columns |-> m.columns,
                                      rows |-> [i \in 1..Len(kept) |-> cell(kind, kept[i])]]))

find_and_parse_collar(sheets) ==
    find_and_parse(sheets, COLLAR_SHEET_NAMES, "collar", {"HOLEID", "EAST", "NORTH", "ELEV"})
find_and_parse_survey(sheets) ==
    find_and_parse(sheets, SURVEY_SHEET_NAMES, "survey", {"HOLEID", "DEPTH", "AZIMUTH", "DIP"})
find_and_parse_assays(sheets) ==
    find_and_parse(sheets, ASSAYS_SHEET_NAMES, "assays", {"HOLEID", "FROM", "TO"})

\* excel_parser.py:16-50: the three kinds in turn; whatever one of them
\* raises is re-raised as ValueError.
parse_excel_file(sheets) ==
    LET c == find_and_parse_collar(sheets)
        v == find_and_parse_survey(sheets)
        a == find_and_parse_assays(sheets)
    IN  IF c.raised # "" \/ v.raised # "" \/ a.raised # ""
        THEN [raised |-> "ValueError", collar |-> None, survey |-> None, assays |-> None]
        ELSE [raised |-> "", collar |-> c.value, survey |-> v.value, assays |-> a.value]

\* ----------------------------------------------------------- session router
\* The response of create, create-excel and load (session_router.py:57-69,
\* 106-118, 137-149).  total_holes being len(collar_df) needs a collar table.
session_response(sid, collar_df, survey_df, assays_df, trajectories) ==
    [success |-> TRUE,
     session_id |-> sid,
     metadata |-> [total_holes |-> Len(collar_df[1].rows),
                   has_survey  |-> survey_df # None,
                   has_assays  |-> assays_df # None],
     data |-> [trajectories |-> trajectories,
               assays |-> IF assays_df = None THEN None ELSE Some(assays_df[1].rows)]]

Http(status, raised, body, table) ==
    [status |-> status, raised |-> raised, body |-> body, table |-> table]

\* A faulty variant: the session is saved before the trajectories are known.
persist_and_respond_early(t, now, sid, collar_df, survey_df, assays_df) ==
    LET traj == calculate_trajectories(collar_df, survey_df)
        data == [collar_df |-> Some(collar_df), survey_df |-> survey_df,
                 assays_df |-> assays_df, trajectories |-> Some(traj.value)]
        out  == save_session_data(t, now, sid, data)
    IN  IF traj.raised # "" THEN Http(400, traj.raised, NoBody, out.table)
        ELSE IF out.raised # "" THEN Http(400, out.raised, NoBody, t)
        ELSE Http(200, "",
                  Some(session_response(sid, Some(collar_df), survey_df, assays_df,
                                        Some(traj.value))),
                  out.table)

\* session_router.py:42-69, 91-118: trajectories, a new id, the save, the
\* response.  Any exception on the way is answered 400 (lines 73-75, 122-124).
persist_and_respond(t, now, sid, collar_df, survey_df, assays_df) ==
    LET traj == calculate_trajectories(collar_df, survey_df)
        data == [collar_df |-> Some(collar_df), survey_df |-> survey_df,
                 assays_df |-> assays_df, trajectories |-> Some(traj.value)]
        out  == save_session_data(t, now, sid, data)
    IN  IF traj.raised # "" THEN Http(400, traj.raised, NoBody, t)
        ELSE IF out.raised # "" THEN Http(400, out.raised, NoBody, t)
        ELSE Http(200, "",
                  Some(session_response(sid, Some(collar_df), survey_df, assays_df,
                                        Some(traj.value))),
                  out.table)

\* session_router.py:18-75.  survey_file and assays_file are optional.
create_session(t, now, sid, collar_file, survey_file, assays_file) ==
    LET c == parse_collar(collar_file)
        v == IF survey_file = None THEN Parsed("", <<>>, <<>>) ELSE parse_survey(survey_file[1])
        a == IF assays_file = None THEN Parsed("", <<>>, <<>>) ELSE parse_assays(assays_file[1])
    IN  IF c.raised # "" THEN Http(400, c.raised, NoBody, t)
        ELSE IF v.raised # "" THEN Http(400, v.raised, NoBody, t)
        ELSE IF a.raised # "" THEN Http(400, a.raised, NoBody, t)
        ELSE persist_and_respond(t, now, sid, c.value,
                                 IF survey_file = None THEN None ELSE Some(v.value),
                                 IF assays_file = None THEN None ELSE Some(a.value))

\* A faulty variant: no filename check.
extension_ok_any(filename) == TRUE
\* session_router.py:81: the filename check.
extension_ok(filename) == endswith_xlsx[filename]

\* session_router.py:78-124.
create_session_excel(t, now, sid, file) ==
    IF ~ extension_ok(file.filename) THEN Http(400, "BadExtension", NoBody, t)
    ELSE LET result == parse_excel_file(file.sheets)
         IN  IF result.raised # "" THEN Http(400, result.raised, NoBody, t)
             ELSE IF result.collar = None THEN Http(400, "NoCollarSheet", NoBody, t)
             ELSE persist_and_respond(t, now, sid, result.collar[1],
                                      result.survey, result.assays)

\* session_router.py:132, 177: if not session_data, if not metadata.
not_found(found) == found = None

\* session_router.py:127-154.  len(None) raises TypeError, answered 500.
load_session(t, sid) ==
    LET session_data == get_session_data(t, sid)
    IN  IF not_found(session_data) THEN Http(404, "NotFound", NoBody, t)
        ELSE IF session_data[1].collar_df = None THEN Http(500, "TypeError", NoBody, t)
        ELSE Http(200, "",
                  Some(session_response(sid, session_data[1].collar_df,
                                        session_data[1].survey_df,
                                        session_data[1].assays_df,
                                        session_data[1].trajectories)),
                  t)

\* session_router.py:157-169, for one order the store may return.
list_response(entries) ==
    Http(200, "", Some([success |-> TRUE, total |-> Len(entries), sessions |-> entries]), {})

\* session_router.py:172-188.
router_get_session_metadata(t, sid) ==
    LET metadata == get_session_metadata(t, sid)
    IN  IF not_found(metadata) THEN Http(404, "NotFound", NoBody, t)
        ELSE Http(200, "", Some([success |-> TRUE, metadata |-> metadata[1]]), t)

\* A faulty variant: the result of the store is not looked at.
delete_session_unchecked(t, sid) ==
    Http(200, "", Some([success |-> TRUE]), delete_session_data(t, sid).table)
\* session_router.py:191-209.
delete_session(t, sid) ==
    LET out == delete_session_data(t, sid)
    IN  IF ~ out.deleted THEN Http(404, "NotFound", NoBody, out.table)
        ELSE Http(200, "", Some([success |-> TRUE]), out.table)

\* -------------------------------------------------------------- data router
\* data_router.py:10-56: upload/collar, upload/survey, upload/assays.  The
\* table is parsed and returned; whatever the parser raises is answered 400.
upload_endpoint(kind, file) ==
    LET parsed == CASE kind = "collar" -> parse_collar(file)
                    [] kind = "survey" -> parse_survey(file)
                    [] kind = "assays" -> parse_assays(file)
    IN  IF parsed.raised # "" THEN Http(400, parsed.raised, NoBody, {})
        ELSE Http(200, "", Some([success |-> TRUE, data |-> parsed.value.rows,
                                 columns |-> parsed.value.columns]), {})

\* data_router.py:58-85: process/trajectories.
process_trajectories_endpoint(collar_file, survey_file) ==
    LET c == parse_collar(collar_file)
        v == IF survey_file = None THEN Parsed("", <<>>, <<>>) ELSE parse_survey(survey_file[1])
        traj == calculate_trajectories(c.value, IF survey_file = None THEN None
                                                 ELSE Some(v.value))
    IN  IF c.raised # "" THEN Http(400, c.raised, NoBody, {})
        ELSE IF v.raised # "" THEN Http(400, v.raised, NoBody, {})
        ELSE IF traj.raised # "" THEN Http(400, traj.raised, NoBody, {})
        ELSE Http(200, "", Some([success |-> TRUE, data |-> traj.value]), {})

\* ----------------------------------------------------- cross-section router
\* The simple projection of stored trajectories: the traces of the
\* trajectories whose id is requested and whose collar lies within the
\* tolerance of the line (near: the ids of those holes, given the line and the
\* tolerance of the request).  Trajectories that are None cannot be iterated.
calculate_simple_cross_section(trajectories, hole_ids, near) ==
    IF trajectories = None THEN [raised |-> "TypeError", drillholes |-> <<>>]
    ELSE [raised |-> "",
          drillholes |-> SelectSeq(trajectories[1],
                                   LAMBDA tr : tr.hole_id \in hole_ids /\ tr.hole_id \in near)]

\* cross_section_router.py:8-29.  get_session_data is awaited before the try
\* statement: what it raises leaves the handler as it is (status 0: the
\* handler produces no response); errors of the projection are answered 500.
cross_section_endpoint(t, storage_ok, request) ==
    IF ~ storage_ok THEN Http(0, "OperationalError", NoBody, t)
    ELSE LET session_data == get_session_data(t, request.session_id)
         IN  IF not_found(session_data) THEN Http(404, "NotFound", NoBody, t)
             ELSE LET result == calculate_simple_cross_section(
                                    session_data[1].trajectories, request.hole_ids, request.near)
                  IN  IF result.raised # "" THEN Http(500, result.raised, NoBody, t)
                      ELSE Http(200, "", Some([success |-> TRUE,
                                               drillholes |-> result.drillholes]), t)

\* The except clauses of the session router: the status that answers an
\* exception of the store (session_router.py:73-75, 122-124, 152-154,
\* 167-169, 186-188, 207-209).
except_status ==
    ("create" :> 400) @@ ("create-excel" :> 400) @@ ("load" :> 500) @@
    ("list" :> 500) @@ ("metadata" :> 500) @@ ("delete" :> 500)

\* ------------------------------------------------------------ request inputs
\* The collar headers of tests/helpers.py:15-57.
CollarHeaders ==
    [standard    |-> <<"Hole_ID", "East", "North", "Elevation", "Max_Depth">>,
     uppercase   |-> <<"HOLEID", "EAST", "NORTH", "ELEV", "MAX_DEPTH">>,
     lowercase   |-> <<"holeid", "east", "north", "elevation", "max_depth">>,
     mixed       |-> <<"Hole_ID", "easting", "Northing", "ELEVATION", "max_depth">>,
     alternative |-> <<"DHID", "X", "Y", "RL", "Depth">>]
Variations == DOMAIN CollarHeaders

\* One row per hole, every required cell numeric.
CollarRows == [i \in 1..MaxHoles |-> [hole |-> i, numeric |-> TRUE]]
\* The same rows, the last one with a non-numeric coordinate.
CollarRowsOneBad ==
    [i \in 1..MaxHoles |-> [hole |-> i, numeric |-> i < MaxHoles]]

\* The same holes, no row with a numeric coordinate.
CollarRowsBad == [i \in 1..MaxHoles |-> [hole |-> i, numeric |-> FALSE]]

File(header, rows) == [header |-> header, rows |-> rows]

\* Hole 1 surveyed at two depths, deeper row first; every hole sampled once.
SurveyRows ==
    <<[hole |-> 1, depth |-> 50, azimuth |-> 0, dip |-> 0 - 90, numeric |-> TRUE],
      [hole |-> 1, depth |-> 0, azimuth |-> 0, dip |-> 0 - 90, numeric |-> TRUE]>>
SurveyRowsBad ==
    <<[hole |-> 1, depth |-> 0, azimuth |-> 0, dip |-> 0 - 90, numeric |-> FALSE]>>
AssayRows == <<[hole |-> 1, from |-> 0, to |-> 10, numeric |-> TRUE]>>

\* Survey rows with an azimuth of 450 degrees or a dip of -180 degrees, and
\* an assay row whose interval ends where it begins.
SurveyRowsOutOfRange ==
    {<<[hole |-> 1, depth |-> 50, azimuth |-> 450, dip |-> 0 - 90, numeric |-> TRUE]>>,
     <<[hole |-> 1, depth |-> 50, azimuth |-> 0, dip |-> 0 - 180, numeric |-> TRUE]>>}
AssayRowsInverted == <<[hole |-> 1, from |-> 10, to |-> 10, numeric |-> TRUE]>>
SurveyHeader == <<"Hole_ID", "Depth", "Azimuth", "Dip">>
AssayHeader == <<"Hole_ID", "From", "To">>

\* A valid collar upload: any of the header variations with numeric rows.
ValidCollarFiles == {File(CollarHeaders[v], CollarRows) : v \in Variations}

\* The create requests: <<collar, survey, assays>>.
CreateRequests ==
    {<<c, None, None>> : c \in ValidCollarFiles}
    \cup {<<File(CollarHeaders.standard, CollarRows),
            Some(File(SurveyHeader, SurveyRows)), Some(File(AssayHeader, AssayRows))>>,
          <<File(CollarHeaders.standard, CollarRowsOneBad), None, None>>,
          <<File(CollarHeaders.standard, CollarRowsBad), None, None>>,
          <<EmptyFile, None, None>>,
          <<File(<<"Hole_ID", "East", "North">>, CollarRows), None, None>>,
          <<File(CollarHeaders.standard, <<>>), None, None>>,
          <<File(CollarHeaders.alternative, <<>>),
            Some(File(SurveyHeader, SurveyRows)), Some(File(AssayHeader, AssayRows))>>,
          <<File(CollarHeaders.standard, <<>>), Some(File(SurveyHeader, <<>>)), None>>,
          <<File(CollarHeaders.standard, <<>>), Some(File(SurveyColumns, SurveyRows)), None>>}

Sheet(name, header, rows) == [name |-> name, header |-> header, rows |-> rows]
Workbook(filename, sheets) == [filename |-> filename, sheets |-> sheets]

CollarSheet == Sheet("Collar", CollarHeaders.uppercase, CollarRows)
\* A sheet of a later collar candidate name, with one row that is dropped.
HolesSheet == Sheet("Holes", CollarHeaders.alternative, CollarRowsOneBad)
SurveySheet == Sheet("Survey", SurveyColumns, SurveyRows)
AssaysSheet == Sheet("Assays", AssayColumns, AssayRows)

\* The create-excel requests (the workbook of test_e2e.py:137-169 among them).
ExcelRequests ==
    {Workbook("holes.xlsx", <<CollarSheet, SurveySheet, AssaysSheet>>),
     Workbook("holes.xlsx", <<CollarSheet>>),
     Workbook("holes.xlsx", <<HolesSheet>>),
     Workbook("holes.xlsx", <<CollarSheet, Sheet("Survey", SurveyColumns, SurveyRowsBad)>>),
     Workbook("holes.xlsx", <<CollarSheet, Sheet("Assays", <<"HOLEID", "FROM">>, AssayRows)>>),
     Workbook("holes.xlsx", <<Sheet("Collar", <<"HOLEID", "EAST", "NORTH">>, CollarRows)>>),
     Workbook("holes.xlsx", <<Sheet("Collar", CollarHeaders.uppercase, <<>>)>>),
     Workbook("holes.xlsx", <<Sheet("Collar", CollarHeaders.uppercase, <<>>), HolesSheet>>),
     Workbook("holes.xlsx", <<Sheet("COLLAR", CollarHeaders.uppercase, CollarRows)>>),
     Workbook("holes.xlsx", <<HolesSheet, CollarSheet, AssaysSheet>>),
     Workbook("holes.xlsx", <<AssaysSheet, CollarSheet, HolesSheet>>),
     Workbook("holes.xlsx", <<Sheet("Collar", CollarHeaders.uppercase, CollarRowsBad)>>),
     Workbook("holes.xlsx", <<Sheet("Sheet1", CollarHeaders.uppercase, CollarRows)>>),
     Workbook("holes.xlsx", <<SurveySheet, AssaysSheet>>),
     Workbook("holes.xlsx", <<Sheet("Survey", SurveyColumns, SurveyRowsBad)>>),
     Workbook("holes.XLSX", <<CollarSheet>>),
     Workbook("holes.csv", <<CollarSheet, SurveySheet, AssaysSheet>>)}

\* Uploads with a value out of range: a survey or assays file beside a valid
\* collar file, and a Survey or Assays sheet beside a valid Collar sheet.
InvalidValueRequests ==
    {<<File(CollarHeaders.standard, CollarRows), Some(File(SurveyHeader, rows)), None>> :
        rows \in SurveyRowsOutOfRange}
    \cup {<<File(CollarHeaders.standard, CollarRows), None,
            Some(File(AssayHeader, AssayRowsInverted))>>}
InvalidValueWorkbooks ==
    {Workbook("holes.xlsx", <<CollarSheet, Sheet("Survey", SurveyColumns, rows)>>) :
        rows \in SurveyRowsOutOfRange}
    \cup {Workbook("holes.xlsx", <<CollarSheet, Sheet("Assays", AssayColumns, AssayRowsInverted)>>)}

\* The files of the upload endpoints: those of the create requests.
UploadFiles ==
    {req[1] : req \in CreateRequests}
    \cup {req[2][1] : req \in {q \in CreateRequests : q[2] # None}}
    \cup {req[3][1] : req \in {q \in CreateRequests : q[3] # None}}

\* The cross-section requests (models/cross_section.py:4-9): a session, the
\* holes asked for, and the holes within the tolerance of the requested line.
CrossSectionRequests ==
    [session_id : SessionIds, hole_ids : {{}, HoleIds}, near : {{1}, HoleIds}]

\* uuid.uuid4() (session_router.py:44, 93): an id no create has returned.
FreshId(sid) == created[sid] = None /\ ~ select_exists(sessions, sid)

\* ------------------------------------------------------------ router actions
\* lastSaved and savedOrder follow the direct calls of the store only.
Respond(op, sid, r) ==
    /\ sessions' = r.table
    /\ last' = Call(op, sid, r.status, r.raised, r.body)
    /\ UNCHANGED <<tableExists, clock, lastSaved, savedOrder, pc, job>>

\* POST /api/session/create
CreateSession(sid, req) ==
    /\ FreshId(sid)
    /\ LET r == create_session(sessions, clock, sid, req[1], req[2], req[3])
       IN  /\ Respond("create", IF r.status = 200 THEN sid ELSE "", r)
           /\ created' = IF r.status = 200 THEN [created EXCEPT ![sid] = r.body] ELSE created

\* POST /api/session/create-excel
CreateSessionExcel(sid, file) ==
    /\ FreshId(sid)
    /\ LET r == create_session_excel(sessions, clock, sid, file)
       IN  /\ Respond("create-excel", IF r.status = 200 THEN sid ELSE "", r)
           /\ created' = IF r.status = 200 THEN [created EXCEPT ![sid] = r.body] ELSE created

\* GET /api/session/load/{session_id}
LoadSession(sid) ==
    /\ Respond("load", sid, load_session(sessions, sid))
    /\ UNCHANGED created

\* GET /api/session/list
ListSessions ==
    /\ \E entries \in list_sessions(sessions) :
          LET r == list_response(entries)
          IN  last' = Call("list", "", r.status, r.raised, r.body)
    /\ UNCHANGED <<tableExists, sessions, clock, lastSaved, savedOrder, created, pc, job>>

\* GET /api/session/metadata/{session_id}
GetSessionMetadata(sid) ==
    /\ Respond("metadata", sid, router_get_session_metadata(sessions, sid))
    /\ UNCHANGED created

\* DELETE /api/session/delete/{session_id}
DeleteSession(sid) ==
    /\ Respond("delete", sid, delete_session(sessions, sid))
    /\ UNCHANGED created

\* POST /api/upload/collar, /api/upload/survey, /api/upload/assays
Upload(kind, file) ==
    /\ LET r == upload_endpoint(kind, file)
       IN  last' = Call("upload-" \o kind, "", r.status, r.raised, r.body)
    /\ UNCHANGED <<tableExists, sessions, clock, lastSaved, savedOrder, created, pc, job>>

\* POST /api/process/trajectories
ProcessTrajectories(req) ==
    /\ LET r == process_trajectories_endpoint(req[1], req[2])
       IN  last' = Call("process", "", r.status, r.raised, r.body)
    /\ UNCHANGED <<tableExists, sessions, clock, lastSaved, savedOrder, created, pc, job>>

\* POST /api/cross-section/calculate, the store file readable or not.
CalculateCrossSection(storage_ok, request) ==
    /\ Respond("cross-section", request.session_id,
               cross_section_endpoint(sessions, storage_ok, request))
    /\ UNCHANGED created

\* A request of the session router during which the store raises
\* (store.py:116-118, 152-154, 171-173, 200-202, 229-231 re-raise).
StorageFailure(op) ==
    /\ last' = Call(op, "", except_status[op], "OperationalError", NoBody)
    /\ UNCHANGED <<tableExists, sessions, clock, lastSaved, savedOrder, created, pc, job>>

Next ==
    \/ Tick
    \/ Restart
    \/ \E sid \in SessionIds, req \in CreateRequests : CreateSession(sid, req)
    \/ \E sid \in SessionIds, file \in ExcelRequests : CreateSessionExcel(sid, file)
    \/ \E sid \in SessionIds : LoadSession(sid)
    \/ ListSessions
    \/ \E sid \in SessionIds : GetSessionMetadata(sid)
    \/ \E sid \in SessionIds : DeleteSession(sid)

\* The session router serving one request at a time.
Spec == Init /\ [][Next]_vars

ApiNext ==
    \/ Next
    \/ \E kind \in {"collar", "survey", "assays"}, file \in UploadFiles : Upload(kind, file)
    \/ \E req \in CreateRequests : ProcessTrajectories(req)
    \/ \E ok \in BOOLEAN, request \in CrossSectionRequests : CalculateCrossSection(ok, request)
    \/ \E op \in DOMAIN except_status : StorageFailure(op)
    \/ \E sid \in SessionIds, req \in InvalidValueRequests : CreateSession(sid, req)
    \/ \E sid \in SessionIds, file \in InvalidValueWorkbooks : CreateSessionExcel(sid, file)

\* The session, data and cross-section routers together, the store failing
\* or not.
SpecApi == Init /\ [][ApiNext]_vars

\* ================================================================== claims
\* What get returns for a row bound from data d (store.py:70-73, 138-141).
AsStored(d) ==
    [collar_df    |-> deserialize_dataframe(serialize_dataframe(d.collar_df)),
     survey_df    |-> deserialize_dataframe(serialize_dataframe(d.survey_df)),
     assays_df    |-> deserialize_dataframe(serialize_dataframe(d.assays_df)),
     trajectories |-> deserialize_trajectories(serialize_trajectories(d.trajectories))]

HoleOrder(df) == df.rows

\* C2 as stated: after save(id, data), get(id) returns a session with the same
\* collar row count, the same hole-id order and the trajectories that were
\* saved, for any session data.
C2_RoundTripAnyData ==
    (last.op = "get" /\ lastSaved[last.sid] # None) =>
        LET d == lastSaved[last.sid][1]
            g == last.result
        IN  /\ g # None
            /\ g[1].collar_df # None
            /\ Len(g[1].collar_df[1].rows) = Len(d.collar_df[1].rows)
            /\ HoleOrder(g[1].collar_df[1]) = HoleOrder(d.collar_df[1])
            /\ g[1].trajectories = d.trajectories

\* C2 amended: for session data whose collar table has at least one row,
\* get(id) after save(id, data) returns the same collar row count and hole-id
\* order; the trajectories are the saved ones when those were a non-empty
\* list, and absent when they were absent or empty.
C2_RoundTrip ==
    (last.op = "get" /\ lastSaved[last.sid] # None
        /\ Len(lastSaved[last.sid][1].collar_df[1].rows) > 0) =>
        LET d == lastSaved[last.sid][1]
            g == last.result
        IN  /\ g # None
            /\ g[1].collar_df # None
            /\ Len(g[1].collar_df[1].rows) = Len(d.collar_df[1].rows)
            /\ HoleOrder(g[1].collar_df[1]) = HoleOrder(d.collar_df[1])
            /\ g[1].trajectories =
                   IF TrajectoriesFalsy(d.trajectories) THEN None ELSE d.trajectories

\* A get of a session saved with two holes in descending order and with
\* computed trajectories has returned.
C2_Witness ==
    /\ last.op = "get"
    /\ lastSaved[last.sid] # None
    /\ Len(lastSaved[last.sid][1].collar_df[1].rows) = MaxHoles
    /\ lastSaved[last.sid][1].trajectories # None
    /\ last.result # None
    /\ last.result[1].trajectories # None

\* C3: delete(id) of a stored session returns true and leaves no row of id;
\* delete(id) of an id that is not stored returns false and changes nothing;
\* and from a delete until the next save of id every get(id) returns absent.
C3_Delete ==
    /\ [](\A sid \in SessionIds :
            /\ lastSaved[sid] = None => get_session_data(sessions, sid) = None
            /\ (last.op = "get" /\ last.sid = sid /\ lastSaved[sid] = None)
                   => last.result = None)
    /\ [][\A sid \in SessionIds : Delete(sid) =>
            IF select_exists(sessions, sid)
            THEN last'.result = Some(TRUE) /\ get_session_data(sessions', sid) = None
            ELSE last'.result = Some(FALSE) /\ sessions' = sessions]_vars

\* A stored session has been deleted and is gone.
C3_Witness ==
    /\ last.op = "delete"
    /\ last.result = Some(TRUE)
    /\ get_session_data(sessions, last.sid) = None
    /\ sessions # {}

ListedIds(entries) == [i \in 1..Len(entries) |-> entries[i].session_id]

\* C6 as stated: list returns one entry per stored session, a session saved
\* or re-saved after another session's last save standing before it.
C6_ListedInSaveOrder ==
    last.op = "list" => ListedIds(last.result) = savedOrder

\* C6 amended: list returns exactly one entry per stored session and none for
\* a deleted one, with updated_at non-increasing along the list, so that a
\* session whose last save fell in a later second than another session's last
\* save is listed before it (sessions last saved within the same second come
\* in either order); an entry has the fields session_id, created_at,
\* updated_at and metadata only, the metadata being that of the last save.
C6_List ==
    last.op = "list" =>
        LET e == last.result
        IN  /\ Len(e) = Len(savedOrder)
            /\ {e[i].session_id : i \in 1..Len(e)} = {savedOrder[i] : i \in 1..Len(savedOrder)}
            /\ \A i, j \in 1..Len(e) : i < j => e[i].updated_at >= e[j].updated_at
            /\ \A i, j \in 1..Len(e) :
                  (\E r, q \in sessions :
                      /\ r.session_id = e[i].session_id
                      /\ q.session_id = e[j].session_id
                      /\ r.updated_at > q.updated_at) => i < j
            /\ \A i \in 1..Len(e) :
                  /\ DOMAIN e[i] = {"session_id", "created_at", "updated_at", "metadata"}
                  /\ e[i].metadata = session_metadata(lastSaved[e[i].session_id][1])

\* A list of two sessions last saved in different seconds has returned.
C6_Witness ==
    /\ last.op = "list"
    /\ Len(last.result) = 2
    /\ last.result[1].updated_at > last.result[2].updated_at

\* C7: constructing a new PersistenceManager on the same store file leaves
\* every stored session unchanged: get, get-metadata and list return after the
\* restart what they returned before it.
C7_Restart ==
    [][Restart =>
        /\ \A sid \in SessionIds :
              /\ get_session_data(sessions', sid) = get_session_data(sessions, sid)
              /\ get_session_metadata(sessions', sid) = get_session_metadata(sessions, sid)
        /\ list_sessions(sessions') = list_sessions(sessions)]_vars

\* A restart has happened with two sessions stored.
C7_Witness ==
    /\ last.op = "restart"
    /\ Cardinality(sessions) = 2

\* C5 as stated: when two saves of the same id interleave, both complete and
\* the table ends with one row of that id holding the data of the save that
\* wrote last; neither save fails because of the other.
C5_InterleavedSaves ==
    \A p \in Workers :
        pc[p] \in {"done", "failed"} =>
            /\ pc[p] = "done"
            /\ Cardinality(rows_of(sessions, job[p][1].sid)) = 1

\* Two saves of one id that was not stored have both run their SELECT, and one
\* of them has written.
C5_Witness ==
    /\ pc[1] = "done"
    /\ pc[2] = "checked"
    /\ job[1][1].sid = job[2][1].sid
    /\ ~ job[1][1].exists
    /\ ~ job[2][1].exists

ListedIn(t, sid) ==
    \A entries \in list_sessions(t) : \E i \in 1..Len(entries) : entries[i].session_id = sid

\* C1: session lifecycle through the router: create with a valid collar CSV,
\* in any recognized header spelling, succeeds and returns an id s; then
\* load(s) answers 200 with success true and list contains s; delete(s) then
\* answers 200 with success true; every load(s) after the delete answers 404.
C1_Lifecycle ==
    /\ [][\A sid \in SessionIds, req \in CreateRequests :
            (CreateSession(sid, req) /\ req[1] \in ValidCollarFiles) =>
                /\ last'.status = 200
                /\ last'.sid = sid
                /\ load_session(sessions', sid).status = 200
                /\ load_session(sessions', sid).body[1].success
                /\ ListedIn(sessions', sid)]_vars
    /\ [][\A sid \in SessionIds :
            (DeleteSession(sid) /\ created[sid] # None /\ select_exists(sessions, sid)) =>
                /\ last'.status = 200
                /\ last'.result[1].success
                /\ load_session(sessions', sid).status = 404]_vars
    /\ [](\A sid \in SessionIds :
            (created[sid] # None /\ ~ select_exists(sessions, sid)) =>
                load_session(sessions, sid).status = 404)

\* C8: load reproduces create: for every upload that create accepts, a later
\* load of the returned id answers 200 with the metadata, the trajectories and
\* the assays of create's own response, and with the flags get-metadata reports.
C8_LoadReproducesCreate ==
    (last.op = "load" /\ created[last.sid] # None /\ select_exists(sessions, last.sid)) =>
        /\ last.status = 200
        /\ last.result[1].metadata = created[last.sid][1].metadata
        /\ last.result[1].data = created[last.sid][1].data
        /\ LET m == get_session_metadata(sessions, last.sid)[1]
           IN  /\ last.result[1].metadata.total_holes = m.total_holes
               /\ last.result[1].metadata.has_survey = m.has_survey
               /\ last.result[1].metadata.has_assays = m.has_assays

\* C9: load, get-metadata and delete called with a session id that is not in
\* the store each answer 404 and leave the store unchanged.
C9_UnknownIds ==
    [][\A sid \in SessionIds :
          ~ select_exists(sessions, sid) =>
              /\ LoadSession(sid) => (last'.status = 404 /\ sessions' = sessions)
              /\ GetSessionMetadata(sid) => (last'.status = 404 /\ sessions' = sessions)
              /\ DeleteSession(sid) => (last'.status = 404 /\ sessions' = sessions)]_vars

\* A delete of a session that was deleted before has been answered 404 while
\* another session is stored.
C9_Witness ==
    /\ last.op = "delete"
    /\ last.status = 404
    /\ created[last.sid] # None
    /\ sessions # {}

\* The sheet of a kind as the workbook parser finds it, and whether it holds
\* the kind's required columns and at least one row with every required value.
SheetOf(file, possible_names) == find_sheet(sheet_mapping(file.sheets), possible_names)
HoldsValidRows(sheet, kind, required) ==
    /\ apply_column_mapping(sheet.header, kind, required).raised = ""
    /\ \E i \in 1..Len(sheet.rows) : sheet.rows[i].numeric
ValidCollarSheet(file) ==
    /\ SheetOf(file, COLLAR_SHEET_NAMES) # None
    /\ HoldsValidRows(SheetOf(file, COLLAR_SHEET_NAMES)[1], "collar",
                      {"HOLEID", "EAST", "NORTH", "ELEV"})
\* A Survey or Assays sheet is absent, without rows, or holds valid rows.
OtherSheetsParse(file) ==
    /\ LET v == SheetOf(file, SURVEY_SHEET_NAMES)
       IN  v = None \/ v[1].rows = <<>>
             \/ HoldsValidRows(v[1], "survey", {"HOLEID", "DEPTH", "AZIMUTH", "DIP"})
    /\ LET a == SheetOf(file, ASSAYS_SHEET_NAMES)
       IN  a = None \/ a[1].rows = <<>>
             \/ HoldsValidRows(a[1], "assays", {"HOLEID", "FROM", "TO"})

Rejected(sid) ==
    /\ last'.status = 400
    /\ sessions' = sessions
    /\ created' = created
NewlyPersisted(sid, file) ==
    /\ last'.status = 200
    /\ last'.sid = sid
    /\ last'.result[1].success
    /\ ~ select_exists(sessions, sid)
    /\ select_exists(sessions', sid)
    /\ get_session_metadata(sessions', sid)[1].total_holes =
           Len(dropna(SheetOf(file, COLLAR_SHEET_NAMES)[1].rows))
    /\ last'.result[1].metadata.total_holes =
           Len(dropna(SheetOf(file, COLLAR_SHEET_NAMES)[1].rows))

\* C10 as stated: a filename that does not end in .xlsx is rejected with 400
\* before any parsing; a workbook without a Collar-kind sheet is rejected with
\* 400; a workbook whose Collar sheet holds valid rows yields success with a
\* newly persisted session.
C10_WorkbookOutcomeAsStated ==
    [][\A sid \in SessionIds, file \in ExcelRequests :
          CreateSessionExcel(sid, file) =>
              /\ ~ endswith_xlsx[file.filename] =>
                     (Rejected(sid) /\ last'.raised = "BadExtension")
              /\ (endswith_xlsx[file.filename] /\ SheetOf(file, COLLAR_SHEET_NAMES) = None)
                     => Rejected(sid)
              /\ (endswith_xlsx[file.filename] /\ ValidCollarSheet(file))
                     => NewlyPersisted(sid, file)]_vars

\* C10 amended: a filename that does not end in .xlsx is rejected with 400
\* before any parsing; a workbook without a Collar-kind sheet is rejected with
\* 400; a workbook whose Collar sheet holds valid rows, and whose Survey and
\* Assays sheets, where present with rows, hold their required columns and at
\* least one valid row, yields success with a newly persisted session; a
\* Survey or Assays sheet that fails to parse rejects the workbook with 400.
C10_WorkbookOutcome ==
    [][\A sid \in SessionIds, file \in ExcelRequests :
          CreateSessionExcel(sid, file) =>
              /\ ~ endswith_xlsx[file.filename] =>
                     (Rejected(sid) /\ last'.raised = "BadExtension")
              /\ (endswith_xlsx[file.filename] /\ SheetOf(file, COLLAR_SHEET_NAMES) = None)
                     => Rejected(sid)
              /\ (endswith_xlsx[file.filename] /\ ValidCollarSheet(file)
                      /\ OtherSheetsParse(file))
                     => NewlyPersisted(sid, file)
              /\ (endswith_xlsx[file.filename] /\ ~ OtherSheetsParse(file))
                     => Rejected(sid)]_vars

\* A workbook with Collar, Survey and Assays sheets has been accepted and its
\* session is stored.
C10_Witness ==
    /\ last.op = "create-excel"
    /\ last.status = 200
    /\ select_exists(sessions, last.sid)
    /\ last.result[1].metadata.has_survey
    /\ last.result[1].metadata.has_assays

\* C11: in every handler of the session, data and cross-section routers an
\* exception of the parser, geometry or persistence layer (a storage failure
\* while loading the session for a cross-section included) is turned by the
\* handler into an HTTP error with status 400, 404 or 500: every request is
\* answered with 200 or with one of these.
C11_ExceptionsTranslated ==
    last.op \notin {"init", "restart"} => last.status \in {200, 400, 404, 500}

\* A cross-section request has been served while the store could not be read.
C11_Witness ==
    /\ last.op = "cross-section"
    /\ last.raised = "OperationalError"

\* The canonical required columns of a table kind, and whether a header
\* spells every one of them by a recognized synonym.
CanonicalRequired ==
    [collar |-> {"HOLEID", "EAST", "NORTH", "ELEV"},
     survey |-> {"HOLEID", "DEPTH", "AZIMUTH", "DIP"},
     assays |-> {"HOLEID", "FROM", "TO"}]
RecognizedHeader(kind, header) ==
    CanonicalRequired[kind] \subseteq
        {COLUMN_MAPPING[kind][Squash[header[i]]] :
            i \in {j \in 1..Len(header) : Squash[header[j]] \in DOMAIN COLUMN_MAPPING[kind]}}

\* C12: for each table kind and each header that spells the required columns
\* by recognized synonyms, in any letter case, parsing succeeds, keeps every
\* row, and the resulting table carries the canonical column names.
C12_ColumnNormalization ==
    [][\A kind \in DOMAIN CanonicalRequired, file \in UploadFiles :
          (Upload(kind, file) /\ RecognizedHeader(kind, file.header)
                /\ file.rows # <<>> /\ AllNumeric(file.rows)) =>
              /\ last'.status = 200
              /\ Len(last'.result[1].data) = Len(file.rows)
              /\ CanonicalRequired[kind] \subseteq Labels(last'.result[1].columns)]_vars

\* A collar upload with recognized header spellings has been parsed.
C12_Witness ==
    /\ last.op = "upload-collar"
    /\ last.status = 200
    /\ Len(last.result[1].data) = MaxHoles

\* The holes of the rows whose required values are all present and numeric.
ValidHoles(rows) == [i \in 1..Len(dropna(rows)) |-> dropna(rows)[i].hole]

\* C13: a collar row whose East, North or Elevation value is missing or not
\* numeric is dropped and the parse succeeds with the remaining rows when at
\* least one row is valid; a table in which every row is such a row fails.
\* This holds for CSV and for workbook ingestion.
C13_RowRecovery ==
    /\ [][\A file \in UploadFiles :
            (Upload("collar", file)
                  /\ validate_columns(normalize_column_names(file.header, "collar"),
                                      COLLAR_REQUIRED)
                  /\ file.rows # <<>>) =>
                IF ValidHoles(file.rows) # <<>>
                THEN last'.status = 200 /\ last'.result[1].data = ValidHoles(file.rows)
                ELSE last'.status = 400]_vars
    /\ [][\A sid \in SessionIds, file \in ExcelRequests :
            (CreateSessionExcel(sid, file) /\ endswith_xlsx[file.filename]
                  /\ SheetOf(file, COLLAR_SHEET_NAMES) # None
                  /\ OtherSheetsParse(file)
                  /\ RecognizedHeader("collar", SheetOf(file, COLLAR_SHEET_NAMES)[1].header)
                  /\ SheetOf(file, COLLAR_SHEET_NAMES)[1].rows # <<>>) =>
                IF ValidHoles(SheetOf(file, COLLAR_SHEET_NAMES)[1].rows) # <<>>
                THEN /\ last'.status = 200
                     /\ get_session_data(sessions', sid)[1].collar_df[1].rows =
                            ValidHoles(SheetOf(file, COLLAR_SHEET_NAMES)[1].rows)
                ELSE last'.status = 400]_vars

\* A workbook whose collar sheet has a row without a numeric coordinate has
\* been accepted with the other rows.
C13_Witness ==
    /\ last.op = "create-excel"
    /\ last.status = 200
    /\ last.result[1].metadata.total_holes = MaxHoles - 1

\* C14: an upload without data rows (a header line only, or nothing at all)
\* fails: no parser returns a table without rows, and no session is created
\* from one.
C14_EmptyUploadFatal ==
    /\ (last.op \in {"upload-collar", "upload-survey", "upload-assays"} /\ last.status = 200)
           => last.result[1].data # <<>>
    /\ (last.op \in {"create", "create-excel"} /\ last.status = 200)
           => last.result[1].metadata.total_holes > 0
    /\ \A r \in sessions : r.metadata.json.total_holes > 0

\* The sheet a kind is to be read from: the sheet whose lowered name is the
\* earliest candidate name that any sheet has (sheet names of a workbook
\* differ in more than letter case).
EarliestMatch(sheets, names) ==
    LET hits == {k \in 1..Len(names) : \E i \in 1..Len(sheets) : Lower[sheets[i].name] = names[k]}
        first == CHOOSE k \in hits : \A h \in hits : k <= h
    IN  IF hits = {} THEN None
        ELSE Some(sheets[CHOOSE i \in 1..Len(sheets) : Lower[sheets[i].name] = names[first]])

\* The table of a kind in an accepted workbook's session is that of the
\* selected sheet, and there is none when no sheet is selected or the
\* selected sheet has no rows.
ReadFrom(stored, selected, kind) ==
    IF selected = None \/ selected[1].rows = <<>>
    THEN stored = None
    ELSE /\ stored # None
         /\ stored[1].rows = [i \in 1..Len(dropna(selected[1].rows)) |->
                                 cell(kind, dropna(selected[1].rows)[i])]

\* C15: for each table kind the sheet that is parsed is the one whose name
\* matches, case-insensitively, the earliest entry of the kind's candidate
\* list that matches any sheet, whatever the order of the sheets; the kind is
\* absent when no candidate matches or the selected sheet is empty, later
\* candidates not being tried (for the collar: the workbook is rejected).
C15_SheetSelection ==
    [][last'.op = "create-excel" =>
        \A sid \in SessionIds, file \in ExcelRequests :
          (CreateSessionExcel(sid, file) /\ endswith_xlsx[file.filename]) =>
              LET c == EarliestMatch(file.sheets, COLLAR_SHEET_NAMES)
              IN  /\ (c = None \/ c[1].rows = <<>>) => last'.status = 400
                  /\ last'.status = 200 =>
                        LET data == get_session_data(sessions', sid)[1]
                        IN  /\ ReadFrom(data.collar_df, c, "collar")
                            /\ ReadFrom(data.survey_df,
                                        EarliestMatch(file.sheets, SURVEY_SHEET_NAMES), "survey")
                            /\ ReadFrom(data.assays_df,
                                        EarliestMatch(file.sheets, ASSAYS_SHEET_NAMES), "assays")]_vars

\* A workbook with the sheets Holes, Collar and Assays has been accepted: the
\* session has the rows of Collar, not those of Holes.
C15_Witness ==
    /\ last.op = "create-excel"
    /\ last.status = 200
    /\ last.result[1].metadata.has_assays
    /\ ~ last.result[1].metadata.has_survey
    /\ last.result[1].metadata.total_holes = MaxHoles

\* ------------------------------------------------- trajectory computations
\* The arguments of calculate_trajectories: a collar table of distinct holes
\* in any order, and no survey table or one of up to MaxSurveyRows rows, a
\* row being at a negative, zero or positive depth (two rows may share one).
MaxSurveyRows == 2
SurveyDepths == {0 - 10, 0, 50}
\* A row dips by -90 degrees or by 0 degrees.
SurveyDips == {0 - 90, 0}
CollarOrders ==
    {rows \in UNION {[1..n -> HoleIds] : n \in 0..MaxHoles} :
        \A i, j \in 1..Len(rows) : rows[i] = rows[j] => i = j}
SurveyTables ==
    UNION {[1..n -> [hole : HoleIds, depth : SurveyDepths, azimuth : {0}, dip : SurveyDips]] :
              n \in 0..MaxSurveyRows}
TrajectoryInputs ==
    [collar_df : {Collar(rows) : rows \in CollarOrders},
     survey_df : {None} \cup
                 {Some([columns |-> SurveyColumns, rows |-> rows]) : rows \in SurveyTables}]

\* The arguments of the call are kept in job[1].
TrajectoryInit ==
    /\ tableExists = TRUE
    /\ sessions = {}
    /\ clock = 0
    /\ last = Call("init", "", 0, "", NoBody)
    /\ lastSaved = [s \in SessionIds |-> None]
    /\ savedOrder = <<>>
    /\ created = [s \in SessionIds |-> None]
    /\ pc = Idle
    /\ job \in {[NoJob EXCEPT ![1] = <<args>>] : args \in TrajectoryInputs}

\* calculate_trajectories(collar_df, survey_df).
CalculateTrajectories ==
    /\ last.op = "init"
    /\ LET r == calculate_trajectories(job[1][1].collar_df, job[1][1].survey_df)
       IN  last' = Call("trajectories", "", 0, r.raised, r.value)
    /\ UNCHANGED <<tableExists, sessions, clock, lastSaved, savedOrder, created, pc, job>>

SpecTrajectory == TrajectoryInit /\ [][CalculateTrajectories]_vars

\* C16: all-holes trajectories emits exactly one trajectory per collar row, in
\* collar order, for any survey table (absent, without rows for the hole, with
\* rows all at depth <= 0, with duplicate depths); each has 2 or more points,
\* the first being the collar at reported depth 0, and its reported depths
\* never decrease.
C16_TwoPoints ==
    last.op = "trajectories" =>
        LET rows == job[1][1].collar_df.rows
            out  == last.result
        IN  /\ last.raised = ""
            /\ Len(out) = Len(rows)
            /\ \A i \in 1..Len(rows) :
                  /\ out[i].hole_id = rows[i]
                  /\ Len(out[i].points) >= 2
                  /\ Len(out[i].depths) = Len(out[i].points)
                  /\ out[i].points[1] = 0
                  /\ out[i].depths[1] = 0
                  /\ \A k \in 2..Len(out[i].depths) : out[i].depths[k - 1] <= out[i].depths[k]

\* Trajectories have been computed for MaxHoles holes of which one has survey
\* rows at depth <= 0 only and another has no survey row.
C16_Witness ==
    /\ last.op = "trajectories"
    /\ Len(last.result) = MaxHoles
    /\ job[1][1].survey_df # None
    /\ \E i \in 1..MaxHoles :
          /\ survey_subset(job[1][1].survey_df, last.result[i].hole_id) # None
          /\ \A r \in 1..Len(job[1][1].survey_df[1].rows) : job[1][1].survey_df[1].rows[r].depth <= 0
    /\ \E i \in 1..MaxHoles : survey_subset(job[1][1].survey_df, last.result[i].hole_id) = None

\* The points of a hole were stepped from its survey rows: some row is deeper
\* than the collar.
SteppedFromSurvey(survey_df, hole) ==
    /\ survey_df # None
    /\ \E r \in 1..Len(survey_df[1].rows) :
          survey_df[1].rows[r].hole = hole /\ survey_df[1].rows[r].depth > 0

\* C17: has_survey is true exactly when the hole's points were stepped from
\* survey measurements, and false whenever the straight line from the collar
\* to a toe at Max_Depth produced the points.
C17_HasSurveyTellsPath ==
    last.op = "trajectories" =>
        \A i \in 1..Len(last.result) :
            last.result[i].has_survey
                <=> SteppedFromSurvey(job[1][1].survey_df, last.result[i].hole_id)

\* A hole whose survey rows are all at depth <= 0 has the collar and the
\* default toe as its points, and is flagged as surveyed.
C17_Witness ==
    /\ last.op = "trajectories"
    /\ \E i \in 1..Len(last.result) :
          /\ last.result[i].has_survey
          /\ last.result[i].points = <<0, DefaultMaxDepth>>

\* --------------------------------------------------- cross-section geometry
\* Coordinates, depths and lengths count half metres, so that two points can
\* be less than a metre apart.  Section lines run along an axis and survey
\* rows point along an axis or straight down, which keeps every value whole.
Metre == 2

\* np.linalg.norm of a plane vector that runs along an axis, and np.dot.
norm(v) == Abs(v[1]) + Abs(v[2])
dot(u, v) == u[1] * v[1] + u[2] * v[2]

\* The collar row of a hole (tests/conftest.py:28-35, without MAX_DEPTH).
collar_row(hole) ==
    [HOLEID |-> hole, EAST |-> 20 * hole * Metre, NORTH |-> 10 * (hole - 1) * Metre,
     ELEV |-> (1000 - hole) * Metre]

\* cross_section.py:203-234: one point per row whose depth exceeds the depth
\* of the last accepted row, projected on the line.
RECURSIVE step_trace(_, _, _, _, _, _)
step_trace(rows, pos, elev, prev_depth, point_A, direction_norm) ==
    IF rows = <<>> THEN <<>>
    ELSE LET survey == Head(rows)
             interval_length == survey.depth - prev_depth
             dip_rad == 90 - survey.dip
             current_pos ==
                 <<pos[1] + interval_length * Sin[dip_rad] * Sin[survey.azimuth],
                   pos[2] + interval_length * Sin[dip_rad] * Cos[survey.azimuth]>>
             current_elev == elev - interval_length * Cos[dip_rad]
         IN  IF interval_length <= 0
             THEN step_trace(Tail(rows), pos, elev, prev_depth, point_A, direction_norm)
             ELSE <<[depth_along_hole |-> survey.depth,
                     x_along_section  |-> dot(<<current_pos[1] - point_A[1],
                                                current_pos[2] - point_A[2]>>, direction_norm),
                     y_elevation      |-> current_elev]>>
                  \o step_trace(Tail(rows), current_pos, current_elev, survey.depth,
                                point_A, direction_norm)

\* cross_section.py:159-246 (_calculate_hole_trace).  The rows of a hole are
\* at different depths, so that their sorted order is determined.
calculate_hole_trace(hole_id, survey_df, point_A, direction_norm) ==
    LET collar == collar_row(hole_id)
        collar_distance == dot(<<collar.EAST - point_A[1], collar.NORTH - point_A[2]>>,
                               direction_norm)
        at_collar == [depth_along_hole |-> 0, x_along_section |-> collar_distance,
                      y_elevation |-> collar.ELEV]
    IN  IF survey_df = None
           \/ ~ \E i \in 1..Len(survey_df[1].rows) : survey_df[1].rows[i].hole = hole_id
        THEN <<at_collar,
               [depth_along_hole |-> DefaultMaxDepth * Metre,
                x_along_section  |-> collar_distance,
                y_elevation      |-> collar.ELEV - DefaultMaxDepth * Metre]>>
        ELSE LET subset == SelectSeq(survey_df[1].rows, LAMBDA r : r.hole = hole_id)
                 hole_survey == sort_values(subset, [i \in 1..Len(subset) |-> <<subset[i].depth>>])
             IN  <<at_collar>> \o step_trace(hole_survey, <<collar.EAST, collar.NORTH>>,
                                             collar.ELEV, 0, point_A, direction_norm)

\* A faulty variant: only a line of no length is too short.
too_short_zero(length) == length = 0
\* cross_section.py:75: length < 1.0.
too_short(length) == length < Metre

\* A faulty variant: a collar at the tolerance is left out.
within_tolerance_strict(distance_from, tolerance) == distance_from < tolerance
\* cross_section.py:103-104: a collar farther than the tolerance is skipped.
within_tolerance(distance_from, tolerance) == ~ (distance_from > tolerance)

\* A faulty variant: an empty list selects no hole.
selection_given_not_none(hole_ids) == hole_ids # None
\* cross_section.py:84: "if hole_ids" holds for a list that is not empty.
selection_given(hole_ids) == hole_ids # None /\ hole_ids[1] # {}

Min(S) == CHOOSE x \in S : \A y \in S : x <= y
Max(S) == CHOOSE x \in S : \A y \in S : y <= x

\* cross_section.py:62-156.  hole_ids is None or a set of ids; the intervals
\* of the assays are left out of the result.
calculate_cross_section(collar_df, survey_df, hole_ids, point_A, point_B, tolerance) ==
    LET direction == <<point_B[1] - point_A[1], point_B[2] - point_A[2]>>
        length == norm(direction)
        direction_norm == <<direction[1] \div length, direction[2] \div length>>
        working_df == IF selection_given(hole_ids)
                      THEN SelectSeq(collar_df.rows, LAMBDA h : h \in hole_ids[1])
                      ELSE collar_df.rows
        projected(h) ==
            LET collar == collar_row(h)
                distance_along == dot(<<collar.EAST - point_A[1], collar.NORTH - point_A[2]>>,
                                      direction_norm)
                closest_point == <<point_A[1] + distance_along * direction_norm[1],
                                   point_A[2] + distance_along * direction_norm[2]>>
            IN  [hole_id             |-> h,
                 distance_from_line  |-> norm(<<collar.EAST - closest_point[1],
                                                collar.NORTH - closest_point[2]>>),
                 distance_along_line |-> distance_along,
                 collar_elevation    |-> collar.ELEV,
                 trace |-> calculate_hole_trace(h, survey_df, point_A, direction_norm)]
        kept == SelectSeq(working_df,
                          LAMBDA h : within_tolerance(projected(h).distance_from_line, tolerance))
        drillholes_data == [i \in 1..Len(kept) |-> projected(kept[i])]
        all_distances == {drillholes_data[i].distance_along_line : i \in 1..Len(kept)}
        all_elevations ==
            UNION {{drillholes_data[i].trace[k].y_elevation :
                       k \in 1..Len(drillholes_data[i].trace)} : i \in 1..Len(kept)}
    IN  IF too_short(length)
        THEN [raised |-> "SectionLineTooShort", drillholes |-> <<>>, bounds |-> <<>>]
        ELSE IF drillholes_data = <<>>
        THEN [raised |-> "NoDrillholesFound", drillholes |-> <<>>, bounds |-> <<>>]
        ELSE [raised |-> "", drillholes |-> drillholes_data,
              bounds |-> [min_distance |-> Min(all_distances),
                          max_distance |-> Max(all_distances),
                          min_elevation |-> Min(all_elevations),
                          max_elevation |-> Max(all_elevations)]]

\* The arguments of calculate_cross_section: the collars of all holes or of
\* the first one; no survey table, the rows of a hole drilled straight down,
\* of a hole that turns east at 50 m, or of a hole with rows at depth <= 0
\* only; a selection of holes, some of which are no collar; a line of no
\* length, of half a metre, of 100 m to the east and of 100 m to the north;
\* and a tolerance.
SurveyRow(hole, depth, azimuth, dip) ==
    [hole |-> hole, depth |-> depth * Metre, azimuth |-> azimuth, dip |-> dip]
SectionSurveys ==
    {None} \cup
    {Some([columns |-> SurveyColumns, rows |-> rows]) : rows \in
        {<<SurveyRow(1, 50, 0, 90), SurveyRow(1, 0, 0, 90)>>,
         <<SurveyRow(1, 50, 0, 90), SurveyRow(1, 100, 90, 0)>>,
         <<SurveyRow(1, 0, 0, 90), SurveyRow(1, 0 - 10, 0, 90)>>}}
HoleSelections ==
    {None, Some({}), Some({1}), Some(HoleIds), Some({1, MaxHoles + 1}), Some({MaxHoles + 1})}
SectionLines ==
    {<<<<0, 0>>, B>> : B \in {<<0, 0>>, <<1, 0>>, <<100 * Metre, 0>>, <<0, 100 * Metre>>}}
Tolerances == {5 * Metre, 10 * Metre, 20 * Metre, 100 * Metre}
SectionInputs ==
    [collar_df : {Collar(AllHoles), Collar(<<1>>)}, survey_df : SectionSurveys,
     hole_ids : HoleSelections, line : SectionLines, tolerance : Tolerances]

\* The arguments of the call are kept in job[1].
SectionInit ==
    /\ tableExists = TRUE
    /\ sessions = {}
    /\ clock = 0
    /\ last = Call("init", "", 0, "", NoBody)
    /\ lastSaved = [s \in SessionIds |-> None]
    /\ savedOrder = <<>>
    /\ created = [s \in SessionIds |-> None]
    /\ pc = Idle
    /\ job \in {[NoJob EXCEPT ![1] = <<args>>] : args \in SectionInputs}

section_of(args, tolerance) ==
    calculate_cross_section(args.collar_df, args.survey_df, args.hole_ids,
                            args.line[1], args.line[2], tolerance)

\* calculate_cross_section(collar_df, survey_df, assays_df, hole_ids, A, B, tolerance).
CalculateSection ==
    /\ last.op = "init"
    /\ LET r == section_of(job[1][1], job[1][1].tolerance)
       IN  last' = Call("section", "", 0, r.raised, r)
    /\ UNCHANGED <<tableExists, sessions, clock, lastSaved, savedOrder, created, pc, job>>

SpecSection == SectionInit /\ [][CalculateSection]_vars

\* C18: with endpoints less than 1 metre apart calculate_cross_section fails
\* with "section line too short", for every collar table, selection of holes
\* and tolerance, also when no hole would be found within the tolerance.
C18_TooShortFirst ==
    (last.op = "section" /\ norm(<<job[1][1].line[2][1] - job[1][1].line[1][1],
                                  job[1][1].line[2][2] - job[1][1].line[1][2]>>) < Metre)
        => last.raised = "SectionLineTooShort"

\* A section along a line of half a metre has been refused, with a selection
\* of holes none of which is a collar.
C18_Witness ==
    /\ last.op = "section"
    /\ last.raised = "SectionLineTooShort"
    /\ job[1][1].line[2] = <<1, 0>>
    /\ job[1][1].hole_ids = Some({MaxHoles + 1})

\* The holes of a result, and the collars that may be part of one.
Included(r) == {r.drillholes[i].hole_id : i \in 1..Len(r.drillholes)}
Candidates(args) ==
    {args.collar_df.rows[i] : i \in 1..Len(args.collar_df.rows)}
        \cap (IF args.hole_ids = None \/ args.hole_ids[1] = {} THEN HoleIds
              ELSE args.hole_ids[1])

\* The distance of a collar to a line that runs east or north from the origin.
PerpendicularDistance(hole, line) ==
    IF line[2][2] = 0 THEN Abs(collar_row(hole).NORTH - line[1][2])
    ELSE Abs(collar_row(hole).EAST - line[1][1])

\* C19: a hole is included exactly when it is a candidate and the
\* perpendicular distance of its collar to the line is <= tolerance, and for
\* tolerances t1 <= t2 for which the section is computed the holes included at
\* t1 are included at t2.
C19_ToleranceMonotone ==
    (last.op = "section" /\ last.raised = "") =>
        /\ Included(last.result) =
              {h \in Candidates(job[1][1]) :
                  PerpendicularDistance(h, job[1][1].line) <= job[1][1].tolerance}
        /\ \A t2 \in Tolerances :
              (job[1][1].tolerance <= t2 /\ section_of(job[1][1], t2).raised = "")
                  => /\ Included(last.result) \subseteq Included(section_of(job[1][1], t2))
                     /\ Len(last.result.drillholes) <= Len(section_of(job[1][1], t2).drillholes)

\* A section has been computed that includes a hole whose collar is at the
\* tolerance from the line and leaves out one that is farther.
C19_Witness ==
    /\ last.op = "section"
    /\ last.raised = ""
    /\ \E i \in 1..Len(last.result.drillholes) :
          last.result.drillholes[i].distance_from_line = job[1][1].tolerance
    /\ Included(last.result) # Candidates(job[1][1])

\* C20: in every result the bounds enclose every trace point of every
\* included hole: min_distance <= x_along_section <= max_distance and
\* min_elevation <= y_elevation <= max_elevation.
C20_BoundsEnclose ==
    (last.op = "section" /\ last.raised = "") =>
        \A i \in 1..Len(last.result.drillholes) :
            \A k \in 1..Len(last.result.drillholes[i].trace) :
                LET p == last.result.drillholes[i].trace[k]
                    b == last.result.bounds
                IN  /\ b.min_distance <= p.x_along_section
                    /\ p.x_along_section <= b.max_distance
                    /\ b.min_elevation <= p.y_elevation
                    /\ p.y_elevation <= b.max_elevation

\* A section has been computed in which a trace point of a hole that turns
\* east lies beyond max_distance.
C20_Witness ==
    /\ last.op = "section"
    /\ last.raised = ""
    /\ \E i \in 1..Len(last.result.drillholes) :
          \E k \in 1..Len(last.result.drillholes[i].trace) :
              last.result.drillholes[i].trace[k].x_along_section
                  > last.result.bounds.max_distance

\* ------------------------------------------------------------- line fitting
\* cross_section.py:9-59.  The collar of hole h stands at the position of
\* collar_row(site[h]): the collars lie on one line, a step of 20 m east and
\* 10 m north apart, and holes with the same site share a position.  For
\* points on a line the principal direction is the line's, and the centroid
\* plus the least (greatest) centred projection is the first (last) selected
\* position, from which the ends are moved outwards by a tenth of the span.
\* np.linalg.eig fixes the eigenvector up to its sign: flip tells which.
calculate_line_from_holes(collar_df, site, hole_ids, flip) ==
    LET selected == SelectSeq(collar_df.rows, LAMBDA h : h \in hole_ids)
        sites == {site[selected[i]] : i \in 1..Len(selected)}
        span == Max(sites) - Min(sites)
        low == <<collar_row(Min(sites)).EAST - span * 2 * Metre,
                 collar_row(Min(sites)).NORTH - span * Metre>>
        high == <<collar_row(Max(sites)).EAST + span * 2 * Metre,
                  collar_row(Max(sites)).NORTH + span * Metre>>
    IN  IF Len(selected) < 2
        THEN [raised |-> "NeedTwoHoles", point_A |-> <<>>, point_B |-> <<>>]
        ELSE [raised |-> "",
              point_A |-> IF flip THEN high ELSE low,
              point_B |-> IF flip THEN low ELSE high]

\* The arguments of calculate_line_from_holes: a collar table of distinct
\* holes, the site of each hole, and the ids given (one of them is no hole).
LineInputs ==
    [collar_df : {Collar(rows) : rows \in CollarOrders},
     site : [HoleIds -> HoleIds],
     hole_ids : SUBSET (1..MaxHoles + 1)]

\* The arguments of the call are kept in job[1].
LineInit ==
    /\ tableExists = TRUE
    /\ sessions = {}
    /\ clock = 0
    /\ last = Call("init", "", 0, "", NoBody)
    /\ lastSaved = [s \in SessionIds |-> None]
    /\ savedOrder = <<>>
    /\ created = [s \in SessionIds |-> None]
    /\ pc = Idle
    /\ job \in {[NoJob EXCEPT ![1] = <<args>>] : args \in LineInputs}

\* calculate_line_from_holes(collar_df, hole_ids).
CalculateLine ==
    /\ last.op = "init"
    /\ \E flip \in BOOLEAN :
          LET r == calculate_line_from_holes(job[1][1].collar_df, job[1][1].site,
                                             job[1][1].hole_ids, flip)
          IN  last' = Call("line", "", 0, r.raised, r)
    /\ UNCHANGED <<tableExists, sessions, clock, lastSaved, savedOrder, created, pc, job>>

SpecLine == LineInit /\ [][CalculateLine]_vars

\* The given ids that are the id of a collar.
MatchingIds(args) ==
    args.hole_ids \cap {args.collar_df.rows[i] : i \in 1..Len(args.collar_df.rows)}

\* C21: calculate_line_from_holes fails with "need at least 2 holes" whenever
\* fewer than 2 of the given ids match a collar, and whenever 2 or more match
\* it returns two distinct 2D points, whose separation is > 0.
C21_LineFromHoles ==
    last.op = "line" =>
        IF Cardinality(MatchingIds(job[1][1])) < 2
        THEN last.raised = "NeedTwoHoles"
        ELSE /\ last.raised = ""
             /\ Len(last.result.point_A) = 2
             /\ Len(last.result.point_B) = 2
             /\ last.result.point_A # last.result.point_B

\* A line has been fitted to two collars that stand at the same position.
C21_Witness ==
    /\ last.op = "line"
    /\ last.raised = ""
    /\ Cardinality(MatchingIds(job[1][1])) >= 2
    /\ last.result.point_A = last.result.point_B

\* ------------------------------------------------------------ value ranges
\* The rows of a stored table, none for a table that is absent.
StoredRows(df) == IF df = None THEN <<>> ELSE df[1].rows

\* C22: invalid values never enter a session: an upload with a survey azimuth
\* or dip out of range, or an assay interval with From >= To, is rejected by
\* create and by create from a workbook, so no persisted session holds such a
\* row.
C22_InvalidValuesRejected ==
    \A r \in sessions :
        LET data == get_session_data(sessions, r.session_id)[1]
        IN  /\ \A i \in 1..Len(StoredRows(data.survey_df)) :
                  LET row == StoredRows(data.survey_df)[i]
                  IN  /\ 0 <= row.azimuth /\ row.azimuth < 360
                      /\ 0 - 90 <= row.dip /\ row.dip <= 0
            /\ \A i \in 1..Len(StoredRows(data.assays_df)) :
                  StoredRows(data.assays_df)[i].from < StoredRows(data.assays_df)[i].to

\* A workbook whose assay interval ends where it begins has become a session.
C22_Witness ==
    /\ last.op = "create-excel"
    /\ last.status = 200
    /\ \E r \in sessions :
          LET data == get_session_data(sessions, r.session_id)[1]
          IN  \E i \in 1..Len(StoredRows(data.assays_df)) :
                  StoredRows(data.assays_df)[i].from >= StoredRows(data.assays_df)[i].to

\* ---------------------------------------------------- repository summarizer
\* A source file under the root, as root.rglob("*.py") yields it: whether a
\* part of its path is one of SKIP_DIRS, whether its path holds the include
\* pattern, and what reading and parsing it gives.  A file is named by its
\* position in the walk.
MaxFiles == 2
SourceFiles ==
    [in_skip_dir : BOOLEAN, has_pattern : BOOLEAN,
     content : {"source", "unreadable", "syntax_error"}]

\* A faulty variant: a file that does not parse is summarized as an empty one.
summarize_file_silent(path, file) ==
    IF file.content = "unreadable"
    THEN [path |-> path, error |-> "read_error", parsed |-> FALSE]
    ELSE [path |-> path, error |-> "", parsed |-> TRUE]
\* summarize.py:24-72: an error record when the file cannot be read or
\* parsed, else the record of its classes, functions and imports.
summarize_file(path, file) ==
    IF file.content = "unreadable"
    THEN [path |-> path, error |-> "read_error", parsed |-> FALSE]
    ELSE IF file.content = "syntax_error"
    THEN [path |-> path, error |-> "SyntaxError", parsed |-> FALSE]
    ELSE [path |-> path, error |-> "", parsed |-> TRUE]

\* summarize.py:88-113: the loop over the files from the i-th on.  max_files
\* and include_patterns are None or a value; 0 is a max_files that is not set.
RECURSIVE walk(_, _, _, _, _, _)
walk(files, i, max_files, include_patterns, all_results, errors) ==
    IF i > Len(files) THEN [summary |-> all_results, errors |-> errors]
    ELSE IF files[i].in_skip_dir
    THEN walk(files, i + 1, max_files, include_patterns, all_results, errors)
    ELSE IF include_patterns # None /\ ~ files[i].has_pattern
    THEN walk(files, i + 1, max_files, include_patterns, all_results, errors)
    ELSE IF max_files # None /\ max_files[1] # 0 /\ Len(all_results) >= max_files[1]
    THEN [summary |-> all_results, errors |-> errors]
    ELSE LET info == summarize_file(i, files[i])
         IN  walk(files, i + 1, max_files, include_patterns, Append(all_results, info),
                  IF info.error # "" THEN Append(errors, info) ELSE errors)

\* summarize.py:74-125.  total_files counts the records appended.
summarize_repo(args) ==
    IF ~ args.root_exists
    THEN [raised |-> "FileNotFoundError", summary |-> <<>>, errors |-> <<>>, meta |-> <<>>]
    ELSE LET r == walk(args.files, 1, args.max_files, args.include, <<>>, <<>>)
         IN  [raised |-> "", summary |-> r.summary, errors |-> r.errors,
              meta |-> [files_processed |-> Len(r.summary), errors_count |-> Len(r.errors)]]

\* The arguments of a run: whether the root exists, the files under it, and
\* the --max-files and --include options.
SummarizerInputs ==
    [root_exists : BOOLEAN,
     files : UNION {[1..n -> SourceFiles] : n \in 0..MaxFiles},
     max_files : {None, Some(0), Some(1)},
     include : {None, Some("pattern")}]

\* The arguments of the run are kept in job[1].
SummarizerInit ==
    /\ tableExists = TRUE
    /\ sessions = {}
    /\ clock = 0
    /\ last = Call("init", "", 0, "", NoBody)
    /\ lastSaved = [s \in SessionIds |-> None]
    /\ savedOrder = <<>>
    /\ created = [s \in SessionIds |-> None]
    /\ pc = Idle
    /\ job \in {[NoJob EXCEPT ![1] = <<args>>] : args \in SummarizerInputs}

\* summarize.py:164-175 (main): the exit status is 2 when summarize_repo
\* raises, and 0 after the result is printed.
Main ==
    /\ last.op = "init"
    /\ LET r == summarize_repo(job[1][1])
       IN  last' = Call("summarize", "", IF r.raised # "" THEN 2 ELSE 0, r.raised, r)
    /\ UNCHANGED <<tableExists, sessions, clock, lastSaved, savedOrder, created, pc, job>>

SpecSummarizer == SummarizerInit /\ [][Main]_vars

\* The files a run is to visit, in the order of the walk: those outside the
\* skipped directories that hold the include pattern (when one is given), up
\* to the number of --max-files (when set).
Eligible(args) ==
    LET passing == SelectSeq([i \in 1..Len(args.files) |-> i],
                             LAMBDA i : /\ ~ args.files[i].in_skip_dir
                                        /\ args.include # None => args.files[i].has_pattern)
    IN  IF args.max_files = None \/ args.max_files[1] = 0 \/ Len(passing) <= args.max_files[1]
        THEN passing
        ELSE SubSeq(passing, 1, args.max_files[1])

\* C23: with some files unreadable or not parsable the run still visits every
\* eligible file, makes exactly one summary record per visited file (an error
\* record for each failed one), reports files_processed as the number of
\* summary records and errors_count as the number of error records, and exits
\* normally; only a root that cannot be enumerated makes it exit with 2.
C23_PerFileRecovery ==
    last.op = "summarize" =>
        LET args == job[1][1]
            r == last.result
        IN  IF ~ args.root_exists THEN last.status = 2
            ELSE /\ last.status = 0
                 /\ [k \in 1..Len(r.summary) |-> r.summary[k].path] = Eligible(args)
                 /\ \A k \in 1..Len(r.summary) :
                       (r.summary[k].error # "") <=>
                           (args.files[r.summary[k].path].content # "source")
                 /\ r.meta.files_processed = Len(r.summary)
                 /\ r.meta.errors_count =
                       Cardinality({k \in 1..Len(r.summary) : r.summary[k].error # ""})
                 /\ r.errors = SelectSeq(r.summary, LAMBDA info : info.error # "")

\* A run has ended normally with MaxFiles records of which the first is an
\* error record and the last is not.
C23_Witness ==
    /\ last.op = "summarize"
    /\ last.status = 0
    /\ Len(last.result.summary) = MaxFiles
    /\ last.result.summary[1].error # ""
    /\ last.result.summary[MaxFiles].error = ""

\* ----------------------------------------------------------- survey stepping
\* The positive depths at which a hole has survey rows.
PositiveDepths(survey_df, hole) ==
    IF survey_df = None THEN {}
    ELSE {survey_df[1].rows[i].depth : i \in
             {j \in 1..Len(survey_df[1].rows) :
                 survey_df[1].rows[j].hole = hole /\ survey_df[1].rows[j].depth > 0}}

\* The survey table with its rows in the opposite order.
Reversed(survey_df) ==
    IF survey_df = None THEN None
    ELSE Some([survey_df[1] EXCEPT !.rows =
                  [i \in 1..Len(survey_df[1].rows) |->
                      survey_df[1].rows[Len(survey_df[1].rows) + 1 - i]]])

\* Rows of one hole at one depth have one azimuth and one dip.
OneReadingPerDepth(survey_df) ==
    survey_df # None =>
        \A i, j \in 1..Len(survey_df[1].rows) :
            (survey_df[1].rows[i].hole = survey_df[1].rows[j].hole
             /\ survey_df[1].rows[i].depth = survey_df[1].rows[j].depth)
                => survey_df[1].rows[i] = survey_df[1].rows[j]

C25_VerticalDefault ==
    last.op = "trajectories" =>
        \A i \in 1..Len(last.result) :
            ~ last.result[i].has_survey =>
                last.result[i].positions = <<<<0, 0, 0>>, <<0, 0, 0 - DefaultMaxDepth>>>>

\* One hole without survey rows has its toe level with the collar while
\* another, whose rows are all at depth <= 0, has the toe straight below.
C25_Witness ==
    /\ last.op = "trajectories"
    /\ \E i \in 1..Len(last.result) :
          /\ ~ last.result[i].has_survey
          /\ last.result[i].positions[2][3] = 0
    /\ \E i \in 1..Len(last.result) :
          /\ last.result[i].has_survey
          /\ last.result[i].positions = <<<<0, 0, 0>>, <<0, 0, 0 - DefaultMaxDepth>>>>

\* ------------------------------------------------------------- hole traces
\* C26: every hole included in a cross-section result has a trace of at least
\* 2 points, the first being the collar at depth_along_hole 0 and collar
\* elevation, and depth_along_hole increases strictly along the trace, for
\* holes without survey rows and for holes with survey rows of any depths.
C26_TraceTwoPoints ==
    (last.op = "section" /\ last.raised = "") =>
        \A i \in 1..Len(last.result.drillholes) :
            LET trace == last.result.drillholes[i].trace
            IN  /\ Len(trace) >= 2
                /\ trace[1].depth_along_hole = 0
                /\ trace[1].y_elevation = last.result.drillholes[i].collar_elevation
                /\ \A k \in 2..Len(trace) :
                      trace[k - 1].depth_along_hole < trace[k].depth_along_hole

\* A section includes a hole whose survey rows are all at depth <= 0, with a
\* trace of the collar point alone.
C26_Witness ==
    /\ last.op = "section"
    /\ last.raised = ""
    /\ \E i \in 1..Len(last.result.drillholes) : Len(last.result.drillholes[i].trace) = 1

\* The candidates whose collar lies within the tolerance of the line.
Near(args) ==
    {h \in Candidates(args) : PerpendicularDistance(h, args.line) <= args.tolerance}

C28_FailedCreateKeepsStore ==
    [][last'.op \in {"create", "create-excel"} =>
          IF last'.status = 200
          THEN last' # last =>
               /\ ~ select_exists(sessions, last'.sid)
               /\ \E r \in sessions' : r.session_id = last'.sid /\ sessions' = sessions \cup {r}
          ELSE sessions' = sessions]_vars

\* A create has been refused while the store held a session, which is still
\* in the store.
C28_Witness ==
    /\ last.op \in {"create", "create-excel"}
    /\ last.status = 400
    /\ sessions # {}

\* ---------------------------------------------------------- store isolation
\* C29: the store operations are isolated per session id: save(id, ...) and
\* delete(id) change only the row of id, get, get-metadata and list change
\* nothing, and after any operation on id the answers of get(j) and
\* get-metadata(j) for every other id j are what they were before.
C29_IsolatedPerSession ==
    [][/\ last'.op \in {"save", "delete"} =>
             \A j \in SessionIds \ {last'.sid} :
                 /\ rows_of(sessions', j) = rows_of(sessions, j)
                 /\ get_session_data(sessions', j) = get_session_data(sessions, j)
                 /\ get_session_metadata(sessions', j) = get_session_metadata(sessions, j)
       /\ last'.op \in {"get", "metadata", "list"} => sessions' = sessions]_vars

\* A stored session has been deleted while another one is stored.
C29_Witness ==
    /\ last.op = "delete"
    /\ last.result = Some(TRUE)
    /\ \E j \in SessionIds \ {last.sid} : get_session_data(sessions, j) # None

\* ------------------------------------------------------ column normalization
MaxColumns == 2

\* The headers of a file: up to MaxColumns distinct labels.
Headers ==
    {h \in UNION {[1..n -> DOMAIN Squash] : n \in 0..MaxColumns} :
        \A i, j \in 1..Len(h) : i # j => h[i] # h[j]}

\* The arguments of normalize_column_names: the labels of df and table_type.
NormalizeInputs == [columns : Headers, table_type : DOMAIN mapping_table]

\* The arguments of the call are kept in job[1].
NormalizeInit ==
    /\ tableExists = TRUE
    /\ sessions = {}
    /\ clock = 0
    /\ last = Call("init", "", 0, "", NoBody)
    /\ lastSaved = [s \in SessionIds |-> None]
    /\ savedOrder = <<>>
    /\ created = [s \in SessionIds |-> None]
    /\ pc = Idle
    /\ job \in {[NoJob EXCEPT ![1] = <<args>>] : args \in NormalizeInputs}

\* normalize_column_names(df, table_type).
Normalize ==
    /\ last.op = "init"
    /\ last' = Call("normalize", "", 0, "",
                    Some(normalize_column_names(job[1][1].columns, job[1][1].table_type)))
    /\ UNCHANGED <<tableExists, sessions, clock, lastSaved, savedOrder, created, pc, job>>

SpecNormalize == NormalizeInit /\ [][Normalize]_vars

\* C30: for any distinct input headers of a table kind, different synonyms
\* of one canonical column included, the normalized table has pairwise
\* distinct column names, and normalizing a normalized table changes nothing.
C30_DistinctColumns ==
    last.op = "normalize" =>
        LET columns == last.result[1]
        IN  /\ \A i, j \in 1..Len(columns) : i # j => columns[i] # columns[j]
            /\ normalize_column_names(columns, job[1][1].table_type) = columns

\* A collar file whose headers X and easting are both synonyms of East has
\* been normalized.
C30_Witness ==
    /\ last.op = "normalize"
    /\ job[1][1].table_type = "collar"
    /\ job[1][1].columns = <<"X", "easting">>
    /\ last.result[1] = <<"East", "East">>

====
